---- MODULE Spec2Model ----
(***************************************************************************)
(* A model of the dnspython stub resolver (src/dns/resolver.py): the       *)
(* NXDOMAIN aggregate, the simple and the LRU answer cache, the            *)
(* search-list planner and the Resolver.resolve query loop; and of the     *)
(* inbound zone-transfer state machine (src/dns/xfr.py); of names over     *)
(* octets, their validation, order, hash and wire form (src/dns/name.py);  *)
(* of the message renderer (src/dns/renderer.py); and of the rcode, TTL    *)
(* and dynamic update helpers (src/dns/rcode.py, ttl.py, update.py).       *)
(* Resolver.canonical_name runs on top of the query loop; the default      *)
(* resolver, the nameserver rotation and the cache lock are modelled with  *)
(* several threads, one statement a step.                                  *)
(*                                                                         *)
(* In the resolver part names are sequences of labels, most specific       *)
(* label first; the root label is the empty string, so an absolute name    *)
(* ends with "".                                                           *)
(* Time is a discrete clock `now`; a transport call that answers or fails  *)
(* takes one tick, one that times out takes the resolver's timeout.        *)
(***************************************************************************)
EXTENDS Integers, Sequences, FiniteSets, TLC

VARIABLES
    now,          \* time.time()
    resolver,     \* the Resolver object: nameservers, rotate, cache, search, ...
    args,         \* the arguments of the resolve() call in progress
    resolution,   \* the _Resolution object of the call in progress
    request,      \* resolve(): local `request`
    response,     \* resolve(): local `response`
    nameserver,   \* resolve(): local `nameserver`
    start,        \* resolve(): local `start`
    pc,           \* position of resolve(): idle, next_request, query, tcp, done
    outcome,      \* what resolve() returned or raised
    calls,        \* the transport calls made so far, in order (observation)
    resolveNo,    \* how many resolve() calls have been started
    prev,         \* the outcome and call count of the previous resolve() call
    nx_e1,        \* NXDOMAIN.__add__: self
    nx_e2,        \* NXDOMAIN.__add__: e_nx
    nx_sum,       \* NXDOMAIN.__add__: the returned exception
    nx_pc,        \* NXDOMAIN.__add__: "ready" before the call, "added" after
    lc,           \* the cache under test: a Cache or an LRUCache
    lc_op,        \* the last cache call: operation, key, result, cache before it
    lc_fresh,     \* key -> the answer put under it and not flushed since
    lc_used,      \* key -> the step at which it was last put or hit
    lc_steps,     \* how many steps the cache scenario has taken
    inb,          \* the dns.xfr.Inbound object, its transaction included
    xfr_ret,      \* what the last Inbound call returned or raised
    xfr_last,     \* the last message processed and the Inbound before it
    xfr_rrs,      \* how many RRs have been fed to the Inbound
    fn_args,      \* the arguments of the function call under study
    fn_ret,       \* what that call returned or raised, None before the call
    rdr,          \* the dns.renderer.Renderer object
    rdr_last,     \* the last Renderer call, its outcome, the Renderer before it
    rdr_steps,    \* calls made on the Renderer so far
    upd,          \* the dns.update.UpdateMessage object
    upd_last,     \* the last UpdateMessage call, its outcome, the message before it
    upd_steps,    \* calls made on the UpdateMessage so far
    cn,           \* the Resolver.canonical_name call in progress
    default_resolver, \* the module global dns.resolver.default_resolver
    dlog,         \* the events of the default resolver's users, in order
    callers,      \* thread -> its position in get/reset_default_resolver
    rot,          \* the configured nameservers; thread -> its place in _get_next_nameserver
    lck,          \* the cache's threading.Lock: the thread holding it, or None
    cthr          \* thread -> the cache method it is running and where it is

resolveVars == <<now, resolver, args, resolution, request, response, nameserver,
                 start, pc, outcome, calls, resolveNo, prev>>
nxVars == <<nx_e1, nx_e2, nx_sum, nx_pc>>
resolveState == <<resolver, args, resolution, request, response, nameserver,
                  start, pc, outcome, calls, resolveNo, prev>>
cacheVars == <<lc, lc_op, lc_fresh, lc_used, lc_steps>>
xfrVars == <<inb, xfr_ret, xfr_last, xfr_rrs>>
pureVars == <<fn_args, fn_ret>>
renderVars == <<rdr, rdr_last, rdr_steps>>
updateVars == <<upd, upd_last, upd_steps>>
canonVars == <<cn>>
defaultVars == <<default_resolver, dlog, callers>>
rotateVars == <<rot>>
lockVars == <<lck, cthr>>
vars == <<now, resolver, args, resolution, request, response, nameserver,
          start, pc, outcome, calls, resolveNo, prev, nx_e1, nx_e2, nx_sum, nx_pc,
          lc, lc_op, lc_fresh, lc_used, lc_steps, inb, xfr_ret, xfr_last, xfr_rrs,
          fn_args, fn_ret, rdr, rdr_last, rdr_steps, upd, upd_last, upd_steps,
          cn, default_resolver, dlog, callers, rot, lck, cthr>>

(***************************************************************************)
(* Bounds of the model.                                                    *)
(***************************************************************************)
\* transport calls observed over one run of the model
MaxCalls == 3
\* resolve() calls made one after the other on the same resolver
MaxResolves == 2
\* length of the qnames list of an NXDOMAIN operand
MaxQnames == 2
\* largest ndots setting of the resolver
MaxNdots == 2
\* largest max_size an LRUCache is built with
MaxSize == 2
\* steps (get, put, flush, passing of time) of one cache scenario
MaxCacheSteps == 5
\* largest SOA serial and base serial of a transfer
MaxSerial == 2
\* RRs fed to one Inbound over all its messages
MaxRRs == 6
\* labels handed to the Name constructor
MaxLabels == 4
\* labels before the root label of a name put on the wire
MaxWireLabels == 2
\* labels before the root label of a name that is compared
MaxOrderLabels == 1
\* calls made on one Renderer
MaxRenderCalls == 3
\* largest rcode converted to flags and back
MaxRcode == 4095
\* characters of a TTL text, the scenario texts aside
MaxTTLLen == 3
\* calls made on one UpdateMessage
MaxUpdateCalls == 2
\* threads that use the default resolver at the same time
MaxThreads == 2
\* calls of get_default_resolver and reset_default_resolver over one run
MaxDefaultCalls == 3
\* threads that resolve on one resolver at the same time
MaxRotateThreads == 2
\* nameserver selections made by one thread
MaxSelections == 2
\* threads that use one cache at the same time
MaxCacheThreads == 2
\* cache method calls made over one run by all threads together
MaxCacheCalls == 3

(***************************************************************************)
(* Python values.                                                          *)
(***************************************************************************)
None == [kind |-> "None"]

\* a dict is a function whose DOMAIN is its key set
EmptyDict == [k \in {} |-> None]
DictSet(d, k, v) == [x \in (DOMAIN d) \cup {k} |-> IF x = k THEN v ELSE d[x]]
DictGet(d, k) == IF k \in DOMAIN d THEN d[k] ELSE None
DictRestrict(d, keys) == [x \in (DOMAIN d) \cap keys |-> d[x]]

InSeq(x, s) == \E i \in 1..Len(s) : s[i] = x

(***************************************************************************)
(* dns.name                                                                *)
(***************************************************************************)
root == <<"">>
empty == <<>>

is_absolute(name) == Len(name) > 0 /\ name[Len(name)] = ""

\* Name.concatenate / Name.__add__: the labels of self followed by other's
concatenate(self, other) == self \o other

(***************************************************************************)
(* Messages.  A response echoes the question name `q`, comes from `server` *)
(* over `via`, and carries an rcode, the TC flag, whether its answer       *)
(* section holds an RRset of the requested type, and that RRset's TTL.     *)
(***************************************************************************)
\* dns.rcode.Rcode
NOERROR == 0
SERVFAIL == 2
NXDOMAIN == 3

make_query(qname, rdtype, rdclass) ==
    [kind |-> "query", qname |-> qname, rdtype |-> rdtype, rdclass |-> rdclass]

Response(rcode, tc, rrset, ttl, q, server, via) ==
    [kind |-> "response", rcode |-> rcode, tc |-> tc, rrset |-> rrset,
     ttl |-> ttl, q |-> q, server |-> server, via |-> via]

(***************************************************************************)
(* NXDOMAIN.__add__                                                        *)
(* An NXDOMAIN exception is its kwargs: qnames (a list) and responses (a   *)
(* dict from name to response); an absent kwarg reads as empty.            *)
(***************************************************************************)
NXException(qnames, responses) ==
    [kind |-> "NXDOMAIN", qnames |-> qnames, responses |-> responses]

\* the for loop of __add__ over e_nx's qnames
RECURSIVE NXAddLoop(_, _, _, _)
NXAddLoop(qnames0, responses0, qnames1, responses1) ==
    IF qnames1 = <<>>
    THEN [qnames |-> qnames0, responses |-> responses0]
    ELSE LET qname1 == Head(qnames1)
             q == IF ~InSeq(qname1, qnames0) THEN Append(qnames0, qname1) ELSE qnames0
             r == IF qname1 \in DOMAIN responses1
                  THEN DictSet(responses0, qname1, responses1[qname1])
                  ELSE responses0
         IN  NXAddLoop(q, r, Tail(qnames1), responses1)

\* a faulty __add__ that does not carry the responses of e_nx into the sum
NXDOMAIN_add_keep_own(self, e_nx) ==
    LET acc == NXAddLoop(self.qnames, self.responses, e_nx.qnames, EmptyDict)
    IN  [result |-> NXException(acc.qnames, acc.responses), self |-> self, e_nx |-> e_nx]

\* __add__ works on copies (list(...), dict(...)) of self's kwargs, so it
\* returns a new exception and leaves both operands as they were.
NXDOMAIN_add(self, e_nx) ==
    LET acc == NXAddLoop(self.qnames, self.responses, e_nx.qnames, e_nx.responses)
    IN  [result |-> NXException(acc.qnames, acc.responses), self |-> self, e_nx |-> e_nx]

(***************************************************************************)
(* Answer and Cache                                                        *)
(***************************************************************************)
\* Answer.__init__: the RRset and the minimum TTL come from the response's
\* chaining result; expiration is the time of construction plus that TTL.
Answer(qname, rdtype, rdclass, resp, ns, t) ==
    [kind |-> "Answer", qname |-> qname, rdtype |-> rdtype, rdclass |-> rdclass,
     response |-> resp, nameserver |-> ns,
     rrset |-> resp.rrset, expiration |-> t + resp.ttl]

\* Answer.__len__: the truth value of an Answer is that of len(answer)
Answer_len(answer) == IF answer.rrset THEN 1 ELSE 0

\* Cache.__init__
Cache(cleaning_interval, t) ==
    [kind |-> "Cache", data |-> EmptyDict, cleaning_interval |-> cleaning_interval,
     next_cleaning |-> t + cleaning_interval, hits |-> 0, misses |-> 0]

Cache_maybe_clean(self, t) ==
    IF self.next_cleaning <= t
    THEN [self EXCEPT
            !.data = DictRestrict(self.data,
                        {k \in DOMAIN self.data : ~(self.data[k].expiration <= t)}),
            !.next_cleaning = t + self.cleaning_interval]
    ELSE self

\* a faulty get that still serves an answer at its expiration time
Cache_get_stale(self, key, t) ==
    LET c == Cache_maybe_clean(self, t)
        answer == DictGet(c.data, key)
    IN  IF answer # None /\ answer.expiration >= t
        THEN [cache |-> [c EXCEPT !.hits = @ + 1], answer |-> answer]
        ELSE [cache |-> [c EXCEPT !.misses = @ + 1], answer |-> None]

\* Cache.get: returns the cache after the call and the answer (or None)
Cache_get(self, key, t) ==
    LET c == Cache_maybe_clean(self, t)
        answer == DictGet(c.data, key)
    IN  IF answer # None /\ answer.expiration > t
        THEN [cache |-> [c EXCEPT !.hits = @ + 1], answer |-> answer]
        ELSE [cache |-> [c EXCEPT !.misses = @ + 1], answer |-> None]

Cache_put(self, key, value, t) ==
    LET c == Cache_maybe_clean(self, t)
    IN  [c EXCEPT !.data = DictSet(c.data, key, value)]

\* Cache.flush: one key (a key that is absent is ignored) or everything;
\* either way the next cleaning is rescheduled
Cache_flush(self, key, t) ==
    [self EXCEPT
        !.data = IF key # None
                 THEN DictRestrict(self.data, (DOMAIN self.data) \ {key})
                 ELSE EmptyDict,
        !.next_cleaning = t + self.cleaning_interval]

\* CacheBase.reset_statistics: a new CacheStatistics, both counters zero
CacheBase_reset_statistics(self) == [self EXCEPT !.hits = 0, !.misses = 0]

\* CacheBase.hits
CacheBase_hits(self) == self.hits

\* CacheBase.misses
CacheBase_misses(self) == self.misses

\* CacheBase.get_statistics_snapshot: a copy of the two counters
CacheBase_get_statistics_snapshot(self) ==
    [kind |-> "CacheStatistics", hits |-> self.hits, misses |-> self.misses]

(***************************************************************************)
(* LRUCache.  `data` is the dict from key to node; `order` is the circular *)
(* list read from sentinel.next forward, as the sequence of its nodes'     *)
(* keys, so order[1] is the front node and the last element is             *)
(* sentinel.prev.                                                          *)
(***************************************************************************)
\* LRUCacheNode.__init__
LRUCacheNode(key, value) == [key |-> key, value |-> value, hits |-> 0]

Without(s, key) == SelectSeq(s, LAMBDA x : x # key)

\* LRUCache.set_max_size: a size below 1 is raised to 1
LRUCache_set_max_size(self, max_size) ==
    [self EXCEPT !.max_size = IF max_size < 1 THEN 1 ELSE max_size]

\* LRUCache.__init__: an empty dict and a sentinel linked to itself
LRUCache(max_size) ==
    LRUCache_set_max_size(
        [kind |-> "LRUCache", data |-> EmptyDict, order |-> <<>>,
         max_size |-> 0, hits |-> 0, misses |-> 0],
        max_size)

\* LRUCache._add_front: link the node right after the sentinel
LRUCache_add_front(self, node) ==
    [self EXCEPT !.order = <<node.key>> \o @]

\* LRUCache._move_to_front: unlink the node, then link it after the sentinel
LRUCache_move_to_front(self, node) ==
    [self EXCEPT !.order = <<node.key>> \o Without(@, node.key)]

\* LRUCache._delete_node: unlink the node and drop its key from the dict
LRUCache_delete_node(self, node) ==
    [self EXCEPT !.order = Without(@, node.key),
                 !.data = DictRestrict(@, (DOMAIN @) \ {node.key})]

\* LRUCache._remove_least_recently_used: delete the node before the sentinel
LRUCache_remove_least_recently_used(self) ==
    LRUCache_delete_node(self, self.data[self.order[Len(self.order)]])

\* a faulty get that leaves a hit node where it is in the list
LRUCache_get_in_place(self, key, t) ==
    LET node == DictGet(self.data, key)
    IN  IF node = None
        THEN [cache |-> [self EXCEPT !.misses = @ + 1], answer |-> None]
        ELSE IF node.value.expiration <= t
        THEN [cache |-> [LRUCache_delete_node(self, node) EXCEPT !.misses = @ + 1],
              answer |-> None]
        ELSE [cache |-> [self EXCEPT !.data[key].hits = @ + 1, !.hits = @ + 1],
              answer |-> node.value]

\* LRUCache.get: returns the cache after the call and the answer (or None)
LRUCache_get(self, key, t) ==
    LET node == DictGet(self.data, key)
    IN  IF node = None
        THEN [cache |-> [self EXCEPT !.misses = @ + 1], answer |-> None]
        ELSE IF node.value.expiration <= t
        THEN [cache |-> [LRUCache_delete_node(self, node) EXCEPT !.misses = @ + 1],
              answer |-> None]
        ELSE LET hit == [self EXCEPT !.data[key].hits = @ + 1]
             IN  [cache |-> [LRUCache_move_to_front(hit, hit.data[key])
                                EXCEPT !.hits = @ + 1],
                  answer |-> node.value]

\* LRUCache.get_hits_for_key
LRUCache_get_hits_for_key(self, key) ==
    IF key \in DOMAIN self.data THEN self.data[key].hits ELSE 0

\* the loop of LRUCache.put that makes room for a new node
RECURSIVE LRUCache_make_room(_)
LRUCache_make_room(self) ==
    IF Cardinality(DOMAIN self.data) >= self.max_size
    THEN LRUCache_make_room(LRUCache_remove_least_recently_used(self))
    ELSE self

\* LRUCache.put of a key the cache already holds
LRUCache_put_existing(self, key, value) ==
    LET hit == [self EXCEPT !.data[key].value = value, !.data[key].hits = @ + 1]
    IN  LRUCache_move_to_front(hit, hit.data[key])

\* LRUCache.put of a new key once room has been made
LRUCache_put_new(self, key, value) ==
    LET node == LRUCacheNode(key, value)
    IN  [LRUCache_add_front(self, node) EXCEPT !.data = DictSet(@, key, node)]

\* a faulty put that never makes room
LRUCache_put_no_room(self, key, value) ==
    IF key \in DOMAIN self.data
    THEN LRUCache_put_existing(self, key, value)
    ELSE LRUCache_put_new(self, key, value)

\* a faulty put that removes one node more than it has to
LRUCache_put_one_more(self, key, value) ==
    IF key \in DOMAIN self.data
    THEN LRUCache_put_existing(self, key, value)
    ELSE LET roomy == LRUCache_make_room(self)
         IN  LRUCache_put_new(
                IF Len(roomy.order) > 0
                THEN LRUCache_remove_least_recently_used(roomy) ELSE roomy,
                key, value)

\* LRUCache.put
LRUCache_put(self, key, value) ==
    IF key \in DOMAIN self.data
    THEN LRUCache_put_existing(self, key, value)
    ELSE LRUCache_put_new(LRUCache_make_room(self), key, value)

\* LRUCache.flush: one key (a key that is absent is ignored) or everything
LRUCache_flush(self, key) ==
    IF key # None
    THEN IF key \in DOMAIN self.data
         THEN LRUCache_delete_node(self, self.data[key])
         ELSE self
    ELSE [self EXCEPT !.data = EmptyDict, !.order = <<>>]

(***************************************************************************)
(* dns.xfr.Inbound.  An RRset of a transfer message holds one RR: an SOA   *)
(* with its serial, or a record of another type.  The transaction the      *)
(* Inbound writes to is the list of operations given to it and how it      *)
(* ended; its operations take effect only when it is committed.            *)
(***************************************************************************)
SOA(serial) == [rdtype |-> "SOA", serial |-> serial]
OtherRR == [rdtype |-> "A", serial |-> 0]

\* dns.transaction: txn_manager.writer(), add, delete, commit, rollback
Transaction_writer ==
    [kind |-> "Transaction", ops |-> <<>>, state |-> "open", ends |-> 0]

Transaction_add(txn, rrset) ==
    [txn EXCEPT !.ops = Append(@, [op |-> "add", rrset |-> rrset])]

Transaction_delete(txn, rrset) ==
    [txn EXCEPT !.ops = Append(@, [op |-> "delete", rrset |-> rrset])]

Transaction_commit(txn) ==
    [txn EXCEPT !.state = IF @ = "open" THEN "committed" ELSE @, !.ends = @ + 1]

Transaction_rollback(txn) ==
    [txn EXCEPT !.state = IF @ = "open" THEN "rolledback" ELSE @, !.ends = @ + 1]

\* the operations of a transaction that reach the zone
Transaction_applied(txn) == IF txn.state = "committed" THEN txn.ops ELSE <<>>

\* a base serial handed to Inbound.__init__; no serial is None
BaseSerial(n) == [kind |-> "int", value |-> n]

\* Inbound.__init__: the object, or the ValueError it raises
Inbound_init(rdtype, serial, is_udp) ==
    IF rdtype = "IXFR" /\ serial = None
    THEN [kind |-> "raise", value |-> "ValueError"]
    ELSE IF rdtype # "IXFR" /\ is_udp
    THEN [kind |-> "raise", value |-> "ValueError"]
    ELSE [kind |-> "Inbound", txn |-> None, rdtype |-> rdtype, serial |-> serial,
          is_udp |-> is_udp, soa_rdataset |-> None, done |-> FALSE,
          expecting_SOA |-> FALSE, delete_mode |-> FALSE]

\* a faulty AXFR step that stores the opening SOA without adding it
Inbound_axfr_rr_skip_soa(self, rrset) ==
    IF rrset.rdtype = "SOA"
    THEN IF self.soa_rdataset = None
         THEN [self |-> [self EXCEPT !.soa_rdataset = rrset], stop |-> FALSE]
         ELSE [self |-> [self EXCEPT !.txn = Transaction_commit(@), !.done = TRUE],
               stop |-> TRUE]
    ELSE [self |-> [self EXCEPT !.txn = Transaction_add(@, rrset)], stop |-> FALSE]

\* one turn of the loop of Inbound._process_axfr_message; stop means the
\* method returns True from inside the loop
Inbound_axfr_rr(self, rrset) ==
    IF rrset.rdtype = "SOA" /\ self.soa_rdataset # None
    THEN [self |-> [self EXCEPT !.txn = Transaction_commit(@), !.done = TRUE],
          stop |-> TRUE]
    ELSE LET seen == IF rrset.rdtype = "SOA"
                     THEN [self EXCEPT !.soa_rdataset = rrset] ELSE self
         IN  [self |-> [seen EXCEPT !.txn = Transaction_add(@, rrset)],
              stop |-> FALSE]

\* Inbound._process_axfr_message: the Inbound after it and what it returns
RECURSIVE Inbound_process_axfr_message(_, _)
Inbound_process_axfr_message(self, answer) ==
    IF answer = <<>>
    THEN [self |-> self, ret |-> FALSE]
    ELSE LET r == Inbound_axfr_rr(self, Head(answer))
         IN  IF r.stop THEN [self |-> r.self, ret |-> TRUE]
             ELSE Inbound_process_axfr_message(r.self, Tail(answer))

\* a faulty comparison that takes an equal serial for a newer one
SerialBehind(rrset, serial) == rrset.serial < serial.value

\* the comparison of the opening SOA's serial with the base serial
SerialNotAhead(rrset, serial) == rrset.serial <= serial.value

\* a faulty IXFR step that never changes delete_mode
Inbound_ixfr_rr_no_toggle(self, rrset) ==
    IF rrset.rdtype = "SOA"
    THEN IF self.soa_rdataset = None
         THEN [self |-> [self EXCEPT !.soa_rdataset = rrset,
                                     !.done = SerialNotAhead(rrset, self.serial) \/ @],
               stop |-> SerialNotAhead(rrset, self.serial)]
         ELSE IF rrset = self.soa_rdataset
         THEN [self |-> [self EXCEPT !.txn = Transaction_commit(@), !.done = TRUE],
               stop |-> TRUE]
         ELSE [self |-> self, stop |-> FALSE]
    ELSE IF self.delete_mode
    THEN [self |-> [self EXCEPT !.txn = Transaction_delete(@, rrset)], stop |-> FALSE]
    ELSE [self |-> [self EXCEPT !.txn = Transaction_add(@, rrset)], stop |-> FALSE]

\* one turn of the loop of Inbound._process_ixfr_message
Inbound_ixfr_rr(self, rrset) ==
    IF rrset.rdtype = "SOA"
    THEN IF self.soa_rdataset = None
         THEN [self |-> [self EXCEPT !.soa_rdataset = rrset,
                                     !.done = SerialNotAhead(rrset, self.serial) \/ @],
               stop |-> SerialNotAhead(rrset, self.serial)]
         ELSE IF rrset = self.soa_rdataset
         THEN [self |-> [self EXCEPT !.txn = Transaction_commit(@), !.done = TRUE],
               stop |-> TRUE]
         ELSE [self |-> [self EXCEPT !.delete_mode = ~@], stop |-> FALSE]
    ELSE IF self.delete_mode
    THEN [self |-> [self EXCEPT !.txn = Transaction_delete(@, rrset)], stop |-> FALSE]
    ELSE [self |-> [self EXCEPT !.txn = Transaction_add(@, rrset)], stop |-> FALSE]

\* Inbound._process_ixfr_message
RECURSIVE Inbound_process_ixfr_message(_, _)
Inbound_process_ixfr_message(self, answer) ==
    IF answer = <<>>
    THEN [self |-> self, ret |-> FALSE]
    ELSE LET r == Inbound_ixfr_rr(self, Head(answer))
         IN  IF r.stop THEN [self |-> r.self, ret |-> TRUE]
             ELSE Inbound_process_ixfr_message(r.self, Tail(answer))

\* Inbound.process_message: the Inbound after the call and its outcome, a
\* returned bool or a raised exception
Inbound_process_message(self, answer) ==
    LET s1 == IF self.txn = None THEN [self EXCEPT !.txn = Transaction_writer]
              ELSE self
    IN  IF s1.rdtype = "AXFR"
        THEN LET r == Inbound_process_axfr_message(s1, answer)
             IN  [self |-> r.self, outcome |-> [kind |-> "return", value |-> r.ret]]
        ELSE IF s1.rdtype = "IXFR"
        THEN LET r == Inbound_process_ixfr_message(s1, answer)
             IN  [self |-> r.self, outcome |-> [kind |-> "return", value |-> r.ret]]
        ELSE [self |-> s1, outcome |-> [kind |-> "raise", value |-> "ValueError"]]

\* a faulty __exit__ that leaves the transaction as it is
Inbound_exit_keep(self) == self

\* Inbound.__exit__
Inbound_exit(self) ==
    IF self.txn # None
    THEN [self EXCEPT !.txn = Transaction_rollback(@)]
    ELSE self

(***************************************************************************)
(* Search-list planning: BaseResolver._get_qnames_to_try.                  *)
(* For a relative qname the candidates are qname + each search entry and   *)
(* the bare name made absolute; the bare name goes first when the name has *)
(* more than ndots dots, last otherwise.  An absolute qname is its own     *)
(* single candidate.                                                       *)
(***************************************************************************)
Dots(qname) == IF Len(qname) = 0 THEN 0 ELSE Len(qname) - 1

get_qnames_to_try(self, qname) ==
    IF is_absolute(qname)
    THEN <<qname>>
    ELSE LET abs_qname == concatenate(qname, root)
             with_search == [i \in 1..Len(self.search) |->
                                concatenate(qname, self.search[i])]
         IN  IF Dots(qname) > self.ndots
             THEN <<abs_qname>> \o with_search
             ELSE with_search \o <<abs_qname>>

(***************************************************************************)
(* _Resolution                                                             *)
(***************************************************************************)
\* a faulty __init__ that plans the bare name only
Resolution_init_bare(self, a) ==
    [qnames_to_try |-> <<IF is_absolute(a.qname) THEN a.qname
                         ELSE concatenate(a.qname, root)>>,
     qnames |-> <<IF is_absolute(a.qname) THEN a.qname
                  ELSE concatenate(a.qname, root)>>,
     rdtype |-> a.rdtype, rdclass |-> a.rdclass, tcp |-> a.tcp,
     raise_on_no_answer |-> a.raise_on_no_answer,
     nxdomain_responses |-> EmptyDict, qname |-> empty, errors |-> <<>>]

\* _Resolution.__init__ for a Name qname and a non-meta rdtype and rdclass:
\* qnames is a copy of qnames_to_try, qname starts as dns.name.empty.
Resolution_init(self, a) ==
    [qnames_to_try |-> get_qnames_to_try(self, a.qname),
     qnames |-> get_qnames_to_try(self, a.qname),
     rdtype |-> a.rdtype, rdclass |-> a.rdclass, tcp |-> a.tcp,
     raise_on_no_answer |-> a.raise_on_no_answer,
     nxdomain_responses |-> EmptyDict, qname |-> empty, errors |-> <<>>]

\* _Resolution.next_request: pops candidates until one misses the cache (a
\* request is made), one hits it with something other than a cached
\* NXDOMAIN (that answer is returned), or none is left.  resolver.cache is
\* dereferenced without a None test, so a resolver without a cache raises
\* AttributeError at the first candidate.
RECURSIVE next_request(_, _, _)
next_request(self, cache, t) ==
    IF Len(self.qnames) = 0
    THEN [resolution |-> self, cache |-> cache, request |-> None,
          answer |-> None, raised |-> None]
    ELSE LET qname == Head(self.qnames)
             popped == [self EXCEPT !.qnames = Tail(@)]
             key == <<qname, self.rdtype, self.rdclass>>
         IN  IF cache = None
             THEN [resolution |-> popped, cache |-> cache, request |-> None,
                   answer |-> None, raised |-> [kind |-> "AttributeError"]]
             ELSE LET got == Cache_get(cache, key, t)
                  IN  IF got.answer # None
                      THEN IF ~got.answer.rrset /\ got.answer.response.rcode = NXDOMAIN
                           THEN next_request(
                                    [popped EXCEPT !.nxdomain_responses =
                                        DictSet(@, qname, got.answer.response)],
                                    got.cache, t)
                           ELSE [resolution |-> popped, cache |-> got.cache,
                                 request |-> None, answer |-> got.answer,
                                 raised |-> None]
                      ELSE [resolution |-> popped, cache |-> got.cache,
                            request |-> make_query(qname, self.rdtype, self.rdclass),
                            answer |-> None, raised |-> None]

(***************************************************************************)
(* Resolver                                                                *)
(***************************************************************************)
\* Resolver._get_next_nameserver: the chosen server and the list afterwards
Resolver_get_next_nameserver(self) ==
    IF self.rotate
    THEN [nameserver |-> Head(self.nameservers),
          nameservers |-> Append(Tail(self.nameservers), Head(self.nameservers))]
    ELSE [nameserver |-> self.nameservers[1], nameservers |-> self.nameservers]

\* `lifetime or self.lifetime`: a lifetime argument of None (or 0), written 0
\* here, selects the resolver's own lifetime
EffectiveLifetime(lifetime, self) == IF lifetime # 0 THEN lifetime ELSE self.lifetime

\* the transport of the first call of a loop iteration
FirstTransport(tcp) == IF tcp THEN "tcp" ELSE "udp"

\* a faulty test that never retries a truncated response over TCP
TruncatedNever(tcp, resp) == FALSE

\* `response.flags & dns.flags.TC` on the UDP branch
Truncated(tcp, resp) == ~tcp /\ resp.tc

(***************************************************************************)
(* Inputs of the model.                                                    *)
(***************************************************************************)
foo == <<"foo">>
foo_bar == <<"foo", "bar">>
a_test == <<"a", "test", "">>
b_test == <<"b", "test", "">>

\* the search lists and query names the planner is run on
SearchLists == {<<>>, <<a_test>>, <<b_test>>, <<a_test, b_test>>, <<b_test, a_test>>}
PlanQnames == {empty, foo, foo_bar, <<"foo", "bar", "baz">>,
               concatenate(foo, root), concatenate(foo_bar, root)}

\* the query names resolve() is run on: one relative, one absolute
Qnames == {foo, concatenate(foo, root)}
\* the lifetime argument: None (0) or two ticks
Lifetimes == {0, 2}
\* the gap between two resolve() calls
Delays == {0, 4}

ResolveArgs(qnames) ==
    [qname : qnames, rdtype : {"A"}, rdclass : {"IN"}, tcp : BOOLEAN,
     raise_on_no_answer : BOOLEAN, lifetime : Lifetimes]

\* what a nameserver may send back for `req`; a truncated response is only
\* told apart from the others over UDP
Responses(req, server, via) ==
    {Response(NOERROR, FALSE, TRUE, 3, req.qname, server, via),
     Response(NOERROR, FALSE, FALSE, 3, req.qname, server, via),
     Response(NXDOMAIN, FALSE, FALSE, 3, req.qname, server, via),
     Response(SERVFAIL, FALSE, FALSE, 0, req.qname, server, via)}
    \cup (IF via = "udp"
          THEN {Response(NOERROR, TRUE, FALSE, 3, req.qname, server, via)}
          ELSE {})

\* how a transport call may end: dns.exception.Timeout, another exception,
\* or a response
TransportResults(req, server, via) ==
    {[kind |-> "timeout"], [kind |-> "error"]} \cup Responses(req, server, via)

\* an answer some earlier lookup left in the cache, expiring at time 3
Cached(name, rcode, rrset) ==
    [kind |-> "Answer", qname |-> name, rdtype |-> "A", rdclass |-> "IN",
     response |-> Response(rcode, FALSE, rrset, 3, name, "ns1", "udp"),
     nameserver |-> "ns1", rrset |-> rrset, expiration |-> 3]

CacheWith(answers) ==
    [Cache(4, 0) EXCEPT !.data =
        [k \in {<<a.qname, a.rdtype, a.rdclass>> : a \in answers} |->
            CHOOSE a \in answers : <<a.qname, a.rdtype, a.rdclass>> = k]]

\* the caches a resolver starts with: none at all, an empty one, or one
\* holding answers for candidates of foo
InitialCaches ==
    {None,
     CacheWith({}),
     CacheWith({Cached(concatenate(foo, a_test), NXDOMAIN, FALSE),
                Cached(concatenate(foo, b_test), NXDOMAIN, FALSE),
                Cached(concatenate(foo, root), NXDOMAIN, FALSE)}),
     CacheWith({Cached(concatenate(foo, a_test), NXDOMAIN, FALSE)}),
     CacheWith({Cached(concatenate(foo, a_test), NOERROR, TRUE)}),
     CacheWith({Cached(concatenate(foo, a_test), NOERROR, FALSE)})}

\* BaseResolver.reset(): timeout 2.0, lifetime 5.0, retry_servfail False
NewResolver(nameservers, rotate, cache, search, ndots) ==
    [nameservers |-> nameservers, rotate |-> rotate, cache |-> cache,
     search |-> search, ndots |-> ndots,
     timeout |-> 2, lifetime |-> 5, retry_servfail |-> FALSE]

(***************************************************************************)
(* Initial states.                                                         *)
(***************************************************************************)
NXIdle ==
    /\ nx_e1 = None
    /\ nx_e2 = None
    /\ nx_sum = None
    /\ nx_pc = "off"

CacheIdle ==
    /\ lc = None
    /\ lc_op = None
    /\ lc_fresh = EmptyDict
    /\ lc_used = EmptyDict
    /\ lc_steps = 0

XfrIdle ==
    /\ inb = None
    /\ xfr_ret = None
    /\ xfr_last = None
    /\ xfr_rrs = 0

PureIdle ==
    /\ fn_args = None
    /\ fn_ret = None

RenderIdle ==
    /\ rdr = None
    /\ rdr_last = None
    /\ rdr_steps = 0

UpdateIdle ==
    /\ upd = None
    /\ upd_last = None
    /\ upd_steps = 0

CanonIdle == cn = None

DefaultIdle ==
    /\ default_resolver = None
    /\ dlog = <<>>
    /\ callers = EmptyDict

RotateIdle == rot = EmptyDict

LockIdle ==
    /\ lck = None
    /\ cthr = EmptyDict

ResolveIdle ==
    /\ now = 0
    /\ args = None
    /\ resolution = None
    /\ request = None
    /\ response = None
    /\ nameserver = None
    /\ start = 0
    /\ pc = "idle"
    /\ outcome = None
    /\ calls = <<>>
    /\ resolveNo = 0
    /\ prev = None

\* the resolver of the search-list scenario: ndots 1, search a.test. b.test.
Init ==
    /\ \E rotate \in BOOLEAN, cache \in InitialCaches :
          resolver = NewResolver(<<"ns1", "ns2">>, rotate, cache,
                                 <<a_test, b_test>>, 1)
    /\ ResolveIdle
    /\ NXIdle
    /\ CacheIdle
    /\ XfrIdle
    /\ PureIdle
    /\ RenderIdle
    /\ UpdateIdle
    /\ CanonIdle
    /\ DefaultIdle
    /\ RotateIdle
    /\ LockIdle

\* resolvers over every search list and ndots setting
InitPlan ==
    /\ \E search \in SearchLists, ndots \in 0..MaxNdots :
          resolver = NewResolver(<<"ns1", "ns2">>, FALSE, CacheWith({}), search, ndots)
    /\ ResolveIdle
    /\ NXIdle
    /\ CacheIdle
    /\ XfrIdle
    /\ PureIdle
    /\ RenderIdle
    /\ UpdateIdle
    /\ CanonIdle
    /\ DefaultIdle
    /\ RotateIdle
    /\ LockIdle

(***************************************************************************)
(* Resolver.resolve                                                        *)
(***************************************************************************)
\* lines 746-747: build the _Resolution, note the start time
StartResolve(a) ==
    /\ pc = "idle"
    /\ resolveNo < MaxResolves
    /\ args' = a
    /\ resolution' = Resolution_init(resolver, a)
    /\ start' = now
    /\ pc' = "next_request"
    /\ resolveNo' = resolveNo + 1
    /\ UNCHANGED <<now, resolver, request, response, nameserver, outcome, calls, prev>>
    /\ UNCHANGED <<nxVars, cacheVars, xfrVars, pureVars, renderVars, updateVars,
                   canonVars, defaultVars, rotateVars, lockVars>>

\* the caller resolves the same question again, at once or some time later
ResolveAgain ==
    /\ pc = "done"
    /\ resolveNo < MaxResolves
    /\ \E d \in Delays :
          /\ now' = now + d
          /\ start' = now + d
    /\ prev' = [outcome |-> outcome, ncalls |-> Len(calls), resolution |-> resolution]
    /\ resolution' = Resolution_init(resolver, args)
    /\ request' = None
    /\ response' = None
    /\ nameserver' = None
    /\ outcome' = None
    /\ pc' = "next_request"
    /\ resolveNo' = resolveNo + 1
    /\ UNCHANGED <<resolver, args, calls>>
    /\ UNCHANGED <<nxVars, cacheVars, xfrVars, pureVars, renderVars, updateVars,
                   canonVars, defaultVars, rotateVars, lockVars>>

Finish(result) ==
    /\ pc' = "done"
    /\ outcome' = result

\* lines 749-754: ask the resolution for the next request; return a truthy
\* answer, raise NXDOMAIN when there is no request, else enter the loop
NextRequest ==
    /\ pc = "next_request"
    /\ LET r == next_request(resolution, resolver.cache, now)
       IN  /\ resolution' = r.resolution
           /\ resolver' = [resolver EXCEPT !.cache = r.cache]
           /\ IF r.raised # None
              THEN Finish(r.raised) /\ UNCHANGED request
              ELSE IF r.answer # None /\ Answer_len(r.answer) > 0
              THEN Finish([kind |-> "return", answer |-> r.answer, from |-> "cache"])
                   /\ UNCHANGED request
              ELSE IF r.request = None
              THEN Finish([kind |-> "NXDOMAIN",
                           qnames |-> r.resolution.qnames,
                           responses |-> r.resolution.nxdomain_responses,
                           answer |-> r.answer])
                   /\ request' = r.request
              ELSE /\ request' = r.request
                   /\ pc' = "query"
                   /\ UNCHANGED outcome
    /\ UNCHANGED <<now, args, response, nameserver, start, calls, resolveNo, prev>>
    /\ UNCHANGED <<nxVars, cacheVars, xfrVars, pureVars, renderVars, updateVars,
                   canonVars, defaultVars, rotateVars, lockVars>>

Call(via, server, result) ==
    [resolve |-> resolveNo, via |-> via, server |-> server, request |-> request,
     elapsed |-> now - start, lifetime |-> EffectiveLifetime(args.lifetime, resolver),
     result |-> result]

\* the except clauses, lines 766-771: record the error and go round again
Failed(server, result, t) ==
    /\ resolution' = [resolution EXCEPT !.errors =
            Append(@, <<server, IF result.kind = "timeout" THEN "timed out"
                                ELSE "error">>)]
    /\ pc' = "query"
    /\ UNCHANGED <<outcome, response>>

\* lines 764-765 and 772-779 for a response that is kept: the rcode test,
\* the lifetime test, and what follows the loop when done
Received(resp, server, nss, t) ==
    LET done == resp.rcode = NOERROR \/ resp.rcode = NXDOMAIN
    IN  /\ response' = resp
        /\ IF t - start > EffectiveLifetime(args.lifetime, resolver)
           THEN /\ Finish([kind |-> "LifetimeTimeout", timeout |-> resolver.lifetime,
                           errors |-> resolution.errors])
                /\ UNCHANGED resolution
                /\ resolver' = [resolver EXCEPT !.nameservers = nss]
           ELSE IF ~done
           THEN /\ pc' = "query"
                /\ UNCHANGED <<outcome, resolution>>
                /\ resolver' = [resolver EXCEPT !.nameservers = nss]
           ELSE IF resp.rcode = NXDOMAIN
           THEN /\ resolution' = [resolution EXCEPT !.nxdomain_responses =
                                      DictSet(@, resolution.qname, resp)]
                /\ pc' = "next_request"
                /\ UNCHANGED outcome
                /\ resolver' = [resolver EXCEPT !.nameservers = nss]
           ELSE LET answer == Answer(resolution.qname, args.rdtype, args.rdclass,
                                     resp, server, t)
                    key == <<resolution.qname, args.rdtype, args.rdclass>>
                IN  /\ UNCHANGED resolution
                    /\ IF resolver.cache = None
                       THEN /\ Finish([kind |-> "AttributeError"])
                            /\ resolver' = [resolver EXCEPT !.nameservers = nss]
                       ELSE /\ Finish([kind |-> "return", answer |-> answer,
                                       from |-> "network"])
                            /\ resolver' = [resolver EXCEPT
                                   !.nameservers = nss,
                                   !.cache = Cache_put(resolver.cache, key, answer, t)]

\* lines 756-761: take the next nameserver and make the first transport call
\* of the iteration, UDP unless tcp is set; a truncated UDP response leads
\* to the TCP call of line 763
Query ==
    /\ pc = "query"
    /\ Len(calls) < MaxCalls
    /\ LET ns == Resolver_get_next_nameserver(resolver)
           via == FirstTransport(args.tcp)
       IN  \E result \in TransportResults(request, ns.nameserver, via) :
             LET t == now + (IF result.kind = "timeout" THEN resolver.timeout ELSE 1)
             IN  /\ nameserver' = ns.nameserver
                 /\ calls' = Append(calls, Call(via, ns.nameserver, result))
                 /\ now' = t
                 /\ IF result.kind # "response"
                    THEN /\ Failed(ns.nameserver, result, t)
                         /\ resolver' = [resolver EXCEPT !.nameservers = ns.nameservers]
                    ELSE IF Truncated(args.tcp, result)
                    THEN /\ response' = result
                         /\ pc' = "tcp"
                         /\ resolver' = [resolver EXCEPT !.nameservers = ns.nameservers]
                         /\ UNCHANGED <<outcome, resolution>>
                    ELSE Received(result, ns.nameserver, ns.nameservers, t)
    /\ UNCHANGED <<args, request, start, resolveNo, prev>>
    /\ UNCHANGED <<nxVars, cacheVars, xfrVars, pureVars, renderVars, updateVars,
                   canonVars, defaultVars, rotateVars, lockVars>>

\* line 763: the same request again over TCP to the same nameserver
TcpRetry ==
    /\ pc = "tcp"
    /\ Len(calls) < MaxCalls
    /\ \E result \in TransportResults(request, nameserver, "tcp") :
         LET t == now + (IF result.kind = "timeout" THEN resolver.timeout ELSE 1)
         IN  /\ calls' = Append(calls, Call("tcp", nameserver, result))
             /\ now' = t
             /\ IF result.kind # "response"
                THEN Failed(nameserver, result, t) /\ UNCHANGED resolver
                ELSE Received(result, nameserver, resolver.nameservers, t)
    /\ UNCHANGED <<args, request, nameserver, start, resolveNo, prev>>
    /\ UNCHANGED <<nxVars, cacheVars, xfrVars, pureVars, renderVars, updateVars,
                   canonVars, defaultVars, rotateVars, lockVars>>

Next ==
    \/ \E a \in ResolveArgs(Qnames) : StartResolve(a)
    \/ NextRequest
    \/ Query
    \/ TcpRetry
    \/ ResolveAgain

Spec == Init /\ [][Next]_vars

NextPlan == \E a \in ResolveArgs(PlanQnames) : StartResolve(a)

SpecPlan == InitPlan /\ [][NextPlan]_vars

(***************************************************************************)
(* NXDOMAIN.__add__ as a step: two exceptions are built, then added.       *)
(***************************************************************************)
NXNames == {concatenate(foo, a_test), concatenate(foo, root)}

NXResponses(name) ==
    {Response(NXDOMAIN, FALSE, FALSE, 3, name, server, "udp") : server \in {"ns1", "ns2"}}

SeqsUpTo(S, n) == UNION {[1..k -> S] : k \in 0..n}

\* every dict from some of the names to an NXDOMAIN response for that name
NXResponseDicts ==
    UNION {{d \in [D -> UNION {NXResponses(n) : n \in D}] :
               \A n \in D : d[n] \in NXResponses(n)} : D \in SUBSET NXNames}

\* the constructor checks nothing, so qnames and the keys of responses are
\* independent of each other
NXOperands ==
    {NXException(q, r) : q \in SeqsUpTo(NXNames, MaxQnames), r \in NXResponseDicts}

InitNX ==
    /\ resolver = NewResolver(<<"ns1", "ns2">>, FALSE, None, <<>>, 1)
    /\ ResolveIdle
    /\ nx_e1 \in NXOperands
    /\ nx_e2 \in NXOperands
    /\ nx_sum = None
    /\ nx_pc = "ready"
    /\ CacheIdle
    /\ XfrIdle
    /\ PureIdle
    /\ RenderIdle
    /\ UpdateIdle
    /\ CanonIdle
    /\ DefaultIdle
    /\ RotateIdle
    /\ LockIdle

NXAdd ==
    /\ nx_pc = "ready"
    /\ LET r == NXDOMAIN_add(nx_e1, nx_e2)
       IN  /\ nx_sum' = r.result
           /\ nx_e1' = r.self
           /\ nx_e2' = r.e_nx
    /\ nx_pc' = "added"
    /\ UNCHANGED <<resolveVars, cacheVars, xfrVars, pureVars, renderVars, updateVars,
                   canonVars, defaultVars, rotateVars, lockVars>>

NextNX == NXAdd

SpecNX == InitNX /\ [][NextNX]_vars

(***************************************************************************)
(* The cache scenario: one cache, a Cache or an LRUCache, is called with   *)
(* get, put and flush while time passes.                                   *)
(***************************************************************************)
KeyA == <<concatenate(foo, root), "A", "IN">>
KeyB == <<concatenate(foo, a_test), "A", "IN">>
KeyC == <<concatenate(foo, b_test), "A", "IN">>

\* the answer a lookup of `key` at time t builds from a response of that TTL
AnswerFor(key, ttl, t) ==
    Answer(key[1], key[2], key[3],
           Response(NOERROR, FALSE, TRUE, ttl, key[1], "ns1", "udp"), "ns1", t)

\* a Cache cleaned every 2 seconds, or an LRUCache of each size
CachesUnderTest == {Cache(2, 0)} \cup {LRUCache(m) : m \in 1..MaxSize}
LRUCachesUnderTest == {LRUCache(m) : m \in 1..MaxSize}

InitCache ==
    /\ resolver = None
    /\ ResolveIdle
    /\ NXIdle
    /\ XfrIdle
    /\ lc \in CachesUnderTest
    /\ lc_op = None
    /\ lc_fresh = EmptyDict
    /\ lc_used = EmptyDict
    /\ lc_steps = 0
    /\ PureIdle
    /\ RenderIdle
    /\ UpdateIdle
    /\ CanonIdle
    /\ DefaultIdle
    /\ RotateIdle
    /\ LockIdle

InitLRU ==
    /\ resolver = None
    /\ ResolveIdle
    /\ NXIdle
    /\ XfrIdle
    /\ lc \in LRUCachesUnderTest
    /\ lc_op = None
    /\ lc_fresh = EmptyDict
    /\ lc_used = EmptyDict
    /\ lc_steps = 0
    /\ PureIdle
    /\ RenderIdle
    /\ UpdateIdle
    /\ CanonIdle
    /\ DefaultIdle
    /\ RotateIdle
    /\ LockIdle

CacheCall(op, key, value, answer) ==
    [op |-> op, key |-> key, value |-> value, answer |-> answer,
     before |-> lc, fresh |-> lc_fresh, t |-> now]

\* cache.get(key)
CacheGet(key) ==
    /\ lc # None
    /\ lc_steps < MaxCacheSteps
    /\ LET r == IF lc.kind = "Cache" THEN Cache_get(lc, key, now)
                ELSE LRUCache_get(lc, key, now)
       IN  /\ lc' = r.cache
           /\ lc_op' = CacheCall("get", key, None, r.answer)
           /\ lc_used' = IF r.answer # None
                         THEN DictSet(lc_used, key, lc_steps + 1) ELSE lc_used
    /\ lc_steps' = lc_steps + 1
    /\ UNCHANGED <<now, lc_fresh, resolveState, nxVars, xfrVars, pureVars, renderVars, updateVars,
                   canonVars, defaultVars, rotateVars, lockVars>>

\* cache.put(key, value) with an answer built now from a response of that
\* TTL.  An LRUCache may evict on a put, so there only the newest put is
\* known to be held.
CachePut(key, ttl) ==
    /\ lc # None
    /\ lc_steps < MaxCacheSteps
    /\ LET value == AnswerFor(key, ttl, now)
       IN  /\ lc' = IF lc.kind = "Cache" THEN Cache_put(lc, key, value, now)
                    ELSE LRUCache_put(lc, key, value)
           /\ lc_op' = CacheCall("put", key, value, None)
           /\ lc_fresh' = IF lc.kind = "Cache" THEN DictSet(lc_fresh, key, value)
                          ELSE DictSet(EmptyDict, key, value)
    /\ lc_used' = DictSet(lc_used, key, lc_steps + 1)
    /\ lc_steps' = lc_steps + 1
    /\ UNCHANGED <<now, resolveState, nxVars, xfrVars, pureVars, renderVars, updateVars,
                   canonVars, defaultVars, rotateVars, lockVars>>

\* cache.flush(key), key None for the whole cache
CacheFlush(key) ==
    /\ lc # None
    /\ lc_steps < MaxCacheSteps
    /\ lc' = IF lc.kind = "Cache" THEN Cache_flush(lc, key, now)
             ELSE LRUCache_flush(lc, key)
    /\ lc_op' = CacheCall("flush", key, None, None)
    /\ lc_fresh' = IF key # None
                   THEN DictRestrict(lc_fresh, (DOMAIN lc_fresh) \ {key})
                   ELSE EmptyDict
    /\ lc_steps' = lc_steps + 1
    /\ UNCHANGED <<now, lc_used, resolveState, nxVars, xfrVars, pureVars, renderVars, updateVars,
                   canonVars, defaultVars, rotateVars, lockVars>>

\* d seconds pass between two calls
CacheTick(d) ==
    /\ lc # None
    /\ lc_steps < MaxCacheSteps
    /\ now' = now + d
    /\ lc_steps' = lc_steps + 1
    /\ UNCHANGED <<lc, lc_op, lc_fresh, lc_used, resolveState, nxVars, xfrVars, pureVars,
                   renderVars, updateVars,
                   canonVars, defaultVars, rotateVars, lockVars>>

NextCache ==
    \/ \E key \in {KeyA, KeyB} : CacheGet(key)
    \/ \E key \in {KeyA, KeyB}, ttl \in {1, 3} : CachePut(key, ttl)
    \/ \E key \in {None, KeyA, KeyB} : CacheFlush(key)
    \/ \E d \in {1, 2} : CacheTick(d)

SpecCache == InitCache /\ [][NextCache]_vars

\* an LRUCache alone, three keys, answers that are live (TTL 2) or already
\* expired when put (TTL 0)
NextLRU ==
    \/ \E key \in {KeyA, KeyB, KeyC} : CacheGet(key)
    \/ \E key \in {KeyA, KeyB, KeyC}, ttl \in {0, 2} : CachePut(key, ttl)
    \/ \E key \in {None, KeyA, KeyB, KeyC} : CacheFlush(key)

SpecLRU == InitLRU /\ [][NextLRU]_vars

(***************************************************************************)
(* The transfer scenario: an Inbound is created, fed messages until it     *)
(* reports completion, and left.                                           *)
(***************************************************************************)
XfrRRs == {SOA(n) : n \in 1..MaxSerial} \cup {OtherRR}

\* the arguments of Inbound(): rdtype, serial, is_udp
XfrConfigs ==
    {<<"AXFR", None, u>> : u \in BOOLEAN}
    \cup {<<"IXFR", n, u>> : n \in {None} \cup {BaseSerial(k) : k \in 1..MaxSerial},
                             u \in BOOLEAN}
    \cup {<<"A", None, FALSE>>}

InitXfr ==
    /\ resolver = None
    /\ ResolveIdle
    /\ NXIdle
    /\ CacheIdle
    /\ XfrIdle
    /\ PureIdle
    /\ RenderIdle
    /\ UpdateIdle
    /\ CanonIdle
    /\ DefaultIdle
    /\ RotateIdle
    /\ LockIdle

\* Inbound(txn_manager, rdtype, serial, is_udp)
XfrCreate(rdtype, serial, is_udp) ==
    /\ inb = None
    /\ xfr_ret = None
    /\ LET r == Inbound_init(rdtype, serial, is_udp)
       IN  IF r.kind = "raise"
           THEN inb' = None /\ xfr_ret' = r
           ELSE inb' = r /\ xfr_ret' = None
    /\ UNCHANGED <<xfr_last, xfr_rrs, resolveVars, nxVars, cacheVars, pureVars,
                   renderVars, updateVars,
                   canonVars, defaultVars, rotateVars, lockVars>>

\* inbound.process_message(message) for a message with that answer section
\* and that rcode; the caller stops once it returned True or raised
XfrProcess(answer, rcode) ==
    /\ inb # None
    /\ ~inb.done
    /\ xfr_ret.kind \in {"None", "return"}
    /\ Len(answer) > 0
    /\ xfr_rrs + Len(answer) <= MaxRRs
    /\ LET r == Inbound_process_message(inb, answer)
       IN  /\ inb' = r.self
           /\ xfr_ret' = r.outcome
    /\ xfr_last' = [message |-> answer, rcode |-> rcode, before |-> inb]
    /\ xfr_rrs' = xfr_rrs + Len(answer)
    /\ UNCHANGED <<resolveVars, nxVars, cacheVars, pureVars, renderVars, updateVars,
                   canonVars, defaultVars, rotateVars, lockVars>>

\* the with block of the Inbound is left
XfrExit ==
    /\ inb # None
    /\ xfr_ret.kind # "exit"
    /\ inb' = Inbound_exit(inb)
    /\ xfr_ret' = [kind |-> "exit", value |-> FALSE]
    /\ xfr_last' = [message |-> <<>>, rcode |-> NOERROR, before |-> inb]
    /\ UNCHANGED <<xfr_rrs, resolveVars, nxVars, cacheVars, pureVars, renderVars, updateVars,
                   canonVars, defaultVars, rotateVars, lockVars>>

NextXfr ==
    \/ \E c \in XfrConfigs : XfrCreate(c[1], c[2], c[3])
    \/ \E answer \in SeqsUpTo(XfrRRs, MaxRRs - xfr_rrs), rcode \in {NOERROR, SERVFAIL} :
          XfrProcess(answer, rcode)
    \/ XfrExit

SpecXfr == InitXfr /\ [][NextXfr]_vars

(***************************************************************************)
(* dns.name.Name over octets.  Here a label is the sequence of its octets  *)
(* and a name the sequence of its labels, the root label being the empty   *)
(* sequence.                                                               *)
(***************************************************************************)
RECURSIVE SumLengths(_)
SumLengths(labels) ==
    IF labels = <<>> THEN 0 ELSE Len(Head(labels)) + 1 + SumLengths(Tail(labels))

\* a faulty check that lets a label of 64 octets through
validate_labels_64(labels) ==
    IF SumLengths(labels) > 255 THEN "NameTooLong"
    ELSE LET bad == {i \in 1..Len(labels) :
                        \/ Len(labels[i]) > 64
                        \/ (labels[i] = <<>> /\ i # Len(labels))}
         IN  IF bad = {} THEN "ok"
             ELSE LET i == CHOOSE x \in bad : \A y \in bad : x <= y
                  IN  IF Len(labels[i]) > 64 THEN "LabelTooLong" ELSE "EmptyLabel"

\* _validate_labels: "ok", or the name of the exception it raises
validate_labels(labels) ==
    IF SumLengths(labels) > 255 THEN "NameTooLong"
    ELSE LET bad == {i \in 1..Len(labels) :
                        \/ Len(labels[i]) > 63
                        \/ (labels[i] = <<>> /\ i # Len(labels))}
         IN  IF bad = {} THEN "ok"
             ELSE LET i == CHOOSE x \in bad : \A y \in bad : x <= y
                  IN  IF Len(labels[i]) > 63 THEN "LabelTooLong" ELSE "EmptyLabel"

\* Name.__init__ for labels given as bytes: the Name, or the exception
Name_init(labels) ==
    IF validate_labels(labels) = "ok"
    THEN [kind |-> "Name", labels |-> labels]
    ELSE [kind |-> "raise", value |-> validate_labels(labels)]

Name_is_absolute(self) ==
    Len(self.labels) > 0 /\ self.labels[Len(self.labels)] = <<>>

\* bytes.lower() of one octet
Lower(c) == IF c >= 65 /\ c <= 90 THEN c + 32 ELSE c

LowerLabel(label) == [i \in 1..Len(label) |-> Lower(label[i])]

LowerLabels(labels) == [i \in 1..Len(labels) |-> LowerLabel(labels[i])]

RECURSIVE Flatten(_)
Flatten(labels) ==
    IF labels = <<>> THEN <<>> ELSE Head(labels) \o Flatten(Tail(labels))

RECURSIVE HashFold(_, _)
HashFold(h, octets) ==
    IF octets = <<>> THEN h
    ELSE HashFold(h + (h * 8) + Head(octets), Tail(octets))

\* a faulty hash that folds the octets as they are written
Name_hash_case(self) == HashFold(0, Flatten(self.labels))

\* Name.__hash__
Name_hash(self) == HashFold(0, Flatten(LowerLabels(self.labels)))

\* comparison of two byte strings: -1, 0 or 1
BytesCmp(a, b) ==
    LET n == IF Len(a) < Len(b) THEN Len(a) ELSE Len(b)
        diff == {i \in 1..n : a[i] # b[i]}
    IN  IF diff = {}
        THEN IF Len(a) < Len(b) THEN -1 ELSE IF Len(a) > Len(b) THEN 1 ELSE 0
        ELSE LET i == CHOOSE x \in diff : \A y \in diff : x <= y
             IN  IF a[i] < b[i] THEN -1 ELSE 1

Front(q) == SubSeq(q, 1, Len(q) - 1)

Last(q) == q[Len(q)]

RECURSIVE FullWalk(_, _, _)
FullWalk(l1, l2, nlabels) ==
    IF l1 = <<>> \/ l2 = <<>>
    THEN LET ldiff == Len(l1) - Len(l2)
         IN  <<IF ldiff < 0 THEN "SUPERDOMAIN"
               ELSE IF ldiff > 0 THEN "SUBDOMAIN" ELSE "EQUAL",
               ldiff, nlabels>>
    ELSE LET c == BytesCmp(LowerLabel(Last(l1)), LowerLabel(Last(l2)))
         IN  IF c # 0
             THEN <<IF nlabels > 0 THEN "COMMONANCESTOR" ELSE "NONE", c, nlabels>>
             ELSE FullWalk(Front(l1), Front(l2), nlabels + 1)

\* Name.fullcompare: <<relation, order, common label count>>
fullcompare(self, other) ==
    IF Name_is_absolute(self) # Name_is_absolute(other)
    THEN <<"NONE", IF Name_is_absolute(self) THEN 1 ELSE -1, 0>>
    ELSE FullWalk(self.labels, other.labels, 0)

is_subdomain(self, other) ==
    fullcompare(self, other)[1] \in {"SUBDOMAIN", "EQUAL"}

is_superdomain(self, other) ==
    fullcompare(self, other)[1] \in {"SUPERDOMAIN", "EQUAL"}

Name_eq(self, other) == fullcompare(self, other)[2] = 0

Name_lt(self, other) == fullcompare(self, other)[2] < 0

Name_le(self, other) == fullcompare(self, other)[2] <= 0

Name_ge(self, other) == fullcompare(self, other)[2] >= 0

Name_gt(self, other) == fullcompare(self, other)[2] > 0

\* Name.to_wire from label i on, written at offset pos of the file; compress
\* is the table (keyed by the lowercased labels, as Name keys compare) and
\* on says whether a table was given
RECURSIVE ToWireFrom(_, _, _, _, _)
ToWireFrom(labels, i, pos, compress, on) ==
    LET suffix == SubSeq(labels, i, Len(labels))
        key == LowerLabels(suffix)
    IN  IF i > Len(labels) THEN [bytes |-> <<>>, compress |-> compress]
        ELSE IF labels[i] = <<>> THEN [bytes |-> <<0>>, compress |-> compress]
        ELSE IF on /\ key \in DOMAIN compress /\ compress[key] < 16384
        THEN [bytes |-> <<192 + (compress[key] \div 256), compress[key] % 256>>,
              compress |-> compress]
        ELSE LET c2 == IF on /\ pos < 16384 THEN DictSet(compress, key, pos)
                       ELSE compress
                 rest == ToWireFrom(labels, i + 1, pos + 1 + Len(labels[i]), c2, on)
             IN  [bytes |-> <<Len(labels[i])>> \o labels[i] \o rest.bytes,
                  compress |-> rest.compress]

\* Name.to_wire(file, compress, origin=None) with the file at offset pos
Name_to_wire_compress(self, pos, compress) ==
    IF ~Name_is_absolute(self)
    THEN [kind |-> "raise", value |-> "NeedAbsoluteNameOrOrigin"]
    ELSE LET w == ToWireFrom(self.labels, 1, pos, compress, TRUE)
         IN  [kind |-> "bytes", value |-> w.bytes, compress |-> w.compress]

\* Name.to_wire(): the uncompressed wire form
Name_to_wire(self) ==
    IF ~Name_is_absolute(self)
    THEN [kind |-> "raise", value |-> "NeedAbsoluteNameOrOrigin"]
    ELSE [kind |-> "bytes",
          value |-> ToWireFrom(self.labels, 1, 0, EmptyDict, FALSE).bytes]

\* the walk of from_wire: pos is the 0-based offset read next, limit the
\* offset a pointer must stay below, cused the octets consumed at the
\* name's own place (None until the first pointer or the root label)
RECURSIVE FromWireWalk(_, _, _, _, _, _, _)
FromWireWalk(message, current, pos, limit, labels, total, cused) ==
    IF pos >= Len(message) THEN [kind |-> "raise", value |-> "FormError"]
    ELSE LET count == message[pos + 1]
         IN  IF count = 0
             THEN IF total + 1 > 255 THEN [kind |-> "raise", value |-> "NameTooLong"]
                  ELSE [kind |-> "ok",
                        name |-> [kind |-> "Name", labels |-> Append(labels, <<>>)],
                        cused |-> IF cused = None THEN pos + 1 - current
                                  ELSE cused.value]
             ELSE IF count < 64
             THEN IF pos + 1 + count > Len(message)
                  THEN [kind |-> "raise", value |-> "FormError"]
                  ELSE IF total + count + 1 > 255
                  THEN [kind |-> "raise", value |-> "NameTooLong"]
                  ELSE FromWireWalk(message, current, pos + 1 + count, limit,
                           Append(labels, SubSeq(message, pos + 2, pos + 1 + count)),
                           total + count + 1, cused)
             ELSE IF count >= 192
             THEN IF pos + 2 > Len(message)
                  THEN [kind |-> "raise", value |-> "FormError"]
                  ELSE LET ptr == (count - 192) * 256 + message[pos + 2]
                       IN  IF ptr >= limit
                           THEN [kind |-> "raise", value |-> "BadPointer"]
                           ELSE FromWireWalk(message, current, ptr, ptr, labels, total,
                                    IF cused = None
                                    THEN [kind |-> "int", value |-> pos + 2 - current]
                                    ELSE cused)
             ELSE [kind |-> "raise", value |-> "BadLabelType"]

\* a faulty decoder that does not count the root label among the octets used
from_wire_short(message, current) ==
    LET r == FromWireWalk(message, current, current, current, <<>>, 0, None)
    IN  IF r.kind = "ok" THEN [r EXCEPT !.cused = @ - 1] ELSE r

\* dns.name.from_wire(message, current): the name and the octets consumed
from_wire(message, current) ==
    FromWireWalk(message, current, current, current, <<>>, 0, None)

(***************************************************************************)
(* dns.renderer.  The output file is the io.BytesIO buffer with its        *)
(* position; counts[section + 1] is the code's counts[section].            *)
(***************************************************************************)
QUESTION == 0
ANSWER == 1
AUTHORITY == 2
ADDITIONAL == 3

\* struct.pack of '!H' and of '!I'
U16(x) == <<(x \div 256) % 256, x % 256>>

U32(x) == <<(x \div 16777216) % 256, (x \div 65536) % 256, (x \div 256) % 256, x % 256>>

Zeros(n) == [i \in 1..n |-> 0]

BytesIO_write(f, b) ==
    [buf |-> SubSeq(f.buf, 1, f.pos) \o b
                 \o SubSeq(f.buf, f.pos + Len(b) + 1, Len(f.buf)),
     pos |-> f.pos + Len(b)]

BytesIO_seek(f, p) == [f EXCEPT !.pos = p]

\* io.BytesIO.truncate(): cut at the position; a position past the end
\* leaves the buffer as it is
BytesIO_truncate(f) ==
    [f EXCEPT !.buf = IF f.pos < Len(@) THEN SubSeq(@, 1, f.pos) ELSE @]

\* Renderer.__init__(id, flags, max_size, origin=None)
Renderer_init(id, flags, max_size) ==
    IF id < 0 \/ id > 65535 \/ flags < 0 \/ flags > 65535 \/ max_size <= 0
    THEN [kind |-> "raise", value |-> "ValueError"]
    ELSE [kind |-> "Renderer",
          output |-> [buf |-> Zeros(12), pos |-> 12],
          id |-> id,
          flags |-> flags,
          max_size |-> max_size,
          origin |-> None,
          compress |-> DictSet(EmptyDict, <<<<>>>>, 0),
          section |-> QUESTION,
          counts |-> <<0, 0, 0, 0>>,
          mac |-> <<>>,
          reserved |-> 0,
          was_padded |-> FALSE]

\* a faulty _rollback that keeps the table entry at the truncation point
Renderer_rollback_after(self, where) ==
    [self |-> [self EXCEPT
                  !.output = BytesIO_truncate(BytesIO_seek(@, where)),
                  !.compress = DictRestrict(@, {k \in DOMAIN @ : ~(@[k] > where)})],
     outcome |-> [kind |-> "None"]]

\* Renderer._rollback
Renderer_rollback(self, where) ==
    [self |-> [self EXCEPT
                  !.output = BytesIO_truncate(BytesIO_seek(@, where)),
                  !.compress = DictRestrict(@, {k \in DOMAIN @ : ~(@[k] >= where)})],
     outcome |-> [kind |-> "None"]]

\* a faulty _set_section that lets the section go back
Renderer_set_section_back(self, section) ==
    [kind |-> "ok", self |-> [self EXCEPT !.section = section]]

\* Renderer._set_section
Renderer_set_section(self, section) ==
    IF self.section # section
    THEN IF self.section < section
         THEN [kind |-> "ok", self |-> [self EXCEPT !.section = section]]
         ELSE [kind |-> "raise", value |-> "FormError"]
    ELSE [kind |-> "ok", self |-> self]

Raised(self, exception) ==
    [self |-> self, outcome |-> [kind |-> "raise", value |-> exception]]

Returned(self, before, after) ==
    [self |-> self, outcome |-> [kind |-> "return", span |-> <<before, after>>]]

\* Renderer.add_question
Renderer_add_question(self, qname, rdtype, rdclass) ==
    LET s == Renderer_set_section(self, QUESTION)
    IN  IF s.kind = "raise" THEN Raised(self, s.value)
        ELSE LET before == s.self.output.pos
                 w == Name_to_wire_compress(qname, before, s.self.compress)
             IN  IF w.kind = "raise" THEN Raised(s.self, w.value)
                 ELSE LET o == BytesIO_write(BytesIO_write(s.self.output, w.value),
                                             U16(rdtype) \o U16(rdclass))
                      IN  Returned([s.self EXCEPT !.output = o,
                                                  !.compress = w.compress,
                                                  !.counts[QUESTION + 1] = @ + 1],
                                   before, o.pos)

\* Renderer.add_rrset: the name's to_wire returns None when it writes to a
\* file, so n += rrset.to_wire(...) raises TypeError once the owner name,
\* the fixed fields, the rdlen placeholder and the rdata are written
Renderer_add_rrset(self, section, rrset) ==
    LET s == Renderer_set_section(self, section)
    IN  IF s.kind = "raise" THEN Raised(self, s.value)
        ELSE LET w == Name_to_wire_compress(rrset.name, s.self.output.pos,
                                            s.self.compress)
             IN  IF w.kind = "raise" THEN Raised(s.self, w.value)
                 ELSE LET o1 == BytesIO_write(BytesIO_write(s.self.output, w.value),
                                   U16(rrset.rdtype) \o U16(rrset.rdclass)
                                       \o U32(rrset.ttl))
                          o2 == BytesIO_write(BytesIO_write(o1, <<0, 0>>), rrset.wire)
                      IN  Raised([s.self EXCEPT !.output = o2,
                                                !.compress = w.compress],
                                 "TypeError")

\* Renderer.add_rdataset
Renderer_add_rdataset(self, section, name, rdataset) ==
    LET s == Renderer_set_section(self, section)
    IN  IF s.kind = "raise" THEN Raised(self, s.value)
        ELSE LET before == s.self.output.pos
                 w == Name_to_wire_compress(name, before, s.self.compress)
             IN  IF w.kind = "raise" THEN Raised(s.self, w.value)
                 ELSE LET o1 == BytesIO_write(BytesIO_write(s.self.output, w.value),
                                   U16(rdataset.rdtype) \o U16(rdataset.rdclass)
                                       \o U32(rdataset.ttl))
                          rdataset_start == o1.pos
                          o2 == BytesIO_write(BytesIO_write(o1, <<0, 0>>),
                                              rdataset.wire)
                          after == o2.pos
                          rdlen == after - rdataset_start - 2
                          o3 == BytesIO_seek(
                                    BytesIO_write(BytesIO_seek(o2, rdataset_start),
                                                  U16(rdlen)),
                                    after)
                      IN  Returned([s.self EXCEPT !.output = o3,
                                                  !.compress = w.compress,
                                                  !.counts[section + 1] = @ + 1],
                                   before, after)

\* Renderer.add_opt; opt.wire stands for the octets opt.to_wire writes
Renderer_add_opt(self, opt, pad, opt_size, tsig_size) ==
    LET s == Renderer_set_section(self, ADDITIONAL)
    IN  IF s.kind = "raise" THEN Raised(self, s.value)
        ELSE LET before == s.self.output.pos
                 opt_start == before
                 o1 == BytesIO_write(BytesIO_write(s.self.output, <<0>>),
                           U16(opt.rdtype) \o U16(opt.rdclass) \o U32(opt.ttl)
                               \o U16(0))
                 rdata_start == o1.pos
                 o2 == BytesIO_write(o1, opt.wire)
                 desired_length ==
                     (((before + opt_size + tsig_size - 1) \div pad) + 1) * pad
                 current_length == o2.pos + tsig_size
                 pad_length == IF pad # 0 /\ desired_length - current_length > 0
                               THEN desired_length - current_length ELSE 0
                 o3 == IF pad_length > 0 THEN BytesIO_write(o2, Zeros(pad_length))
                       ELSE o2
                 after == o2.pos + pad_length
                 rdlen == (o2.pos - rdata_start) + pad_length
                 o4 == BytesIO_seek(
                           BytesIO_write(BytesIO_seek(o3, opt_start + 11), U16(rdlen)),
                           after)
             IN  Returned([s.self EXCEPT !.output = o4,
                                         !.counts[ADDITIONAL + 1] = @ + 1],
                          before, after)

\* Renderer.add_tsig; tsig_rdata and mac stand for what dns.tsig.sign
\* returns for the message so far
Renderer_add_tsig(self, keyname, tsig_rdata, mac) ==
    LET s == Renderer_set_section(self, ADDITIONAL)
    IN  IF s.kind = "raise" THEN Raised(self, s.value)
        ELSE LET before == s.self.output.pos
                 w == Name_to_wire_compress(keyname, before, s.self.compress)
             IN  IF w.kind = "raise" THEN Raised(s.self, w.value)
                 ELSE LET o1 == BytesIO_write(BytesIO_write(s.self.output, w.value),
                                   U16(250) \o U16(255) \o U32(0) \o U16(0))
                          rdata_start == o1.pos
                          o2 == BytesIO_write(o1, tsig_rdata)
                          after == o2.pos
                          rdlen == after - rdata_start
                          o3 == BytesIO_seek(
                                    BytesIO_write(BytesIO_seek(o2, rdata_start - 2),
                                                  U16(rdlen)),
                                    after)
                      IN  Returned([s.self EXCEPT !.output = o3,
                                                  !.compress = w.compress,
                                                  !.counts[ADDITIONAL + 1] = @ + 1,
                                                  !.mac = mac],
                                   before, after)

\* Renderer.reserve
Renderer_reserve(self, size) ==
    [self |-> [self EXCEPT !.reserved = @ + size], outcome |-> [kind |-> "None"]]

\* Renderer.release_reserved
Renderer_release_reserved(self) ==
    [self |-> [self EXCEPT !.reserved = 0], outcome |-> [kind |-> "None"]]

\* Renderer.write_header: the twelve octets are written at offset 0, which
\* leaves the stream position at 12
Renderer_write_header(self) ==
    [self |-> [self EXCEPT
                  !.output = BytesIO_write(BytesIO_seek(@, 0),
                                 U16(self.id) \o U16(self.flags)
                                     \o U16(self.counts[1]) \o U16(self.counts[2])
                                     \o U16(self.counts[3]) \o U16(self.counts[4]))],
     outcome |-> [kind |-> "None"]]

\* Renderer.get_wire
Renderer_get_wire(self) == self.output.buf

(***************************************************************************)
(* dns.rcode.  An ednsflags value is kept as its part above bit 20 (high)  *)
(* and its low 20 bits, so that a shift by 20 moves a value between the    *)
(* two parts.                                                              *)
(***************************************************************************)
RcodeMembers == (0..11) \cup (16..23)

\* Rcode(value): the enum member, or ValueError when there is none
Rcode(value) ==
    IF value \in RcodeMembers THEN [kind |-> "rcode", rcode |-> value]
    ELSE [kind |-> "raise", value |-> "ValueError"]

\* x << 20 and x >> 20
ShiftLeft20(x) == [high |-> x, low |-> 0]

ShiftRight20(e) == e.high

\* x & 0x000f and x & 0xff0
And000f(x) == x % 16

And0ff0(x) == ((x \div 16) % 256) * 16

\* dns.rcode.from_flags
Rcode_from_flags(flags, ednsflags) ==
    LET rcode == And000f(flags) + And0ff0(ShiftRight20(ednsflags))
    IN  IF 0 <= rcode /\ rcode <= 4095 THEN Rcode(rcode)
        ELSE [kind |-> "raise", value |-> "ValueError"]

\* dns.rcode.to_flags
Rcode_to_flags(value) ==
    IF 0 <= value /\ value <= 4095
    THEN [kind |-> "flags", flags |-> And000f(value),
          ednsflags |-> ShiftLeft20(And0ff0(value))]
    ELSE [kind |-> "raise", value |-> "ValueError"]

(***************************************************************************)
(* dns.ttl.  A text is the sequence of its characters.  Python integers    *)
(* are unbounded, so an integer is kept as the sequence of its decimal     *)
(* digits, least significant first and without leading zeros (zero is the  *)
(* empty sequence).                                                        *)
(***************************************************************************)
AsciiDigits == <<"0", "1", "2", "3", "4", "5", "6", "7", "8", "9">>

\* the character U+00B2, superscript two
SuperscriptTwo == "U+00B2"

\* str.isdigit: the ASCII digits and, of the characters outside ASCII,
\* superscript two, which is a digit but not a decimal
IsDigit(char) == InSeq(char, AsciiDigits) \/ char = SuperscriptTwo

\* str.isalpha
IsAlpha(char) == char \in {"w", "d", "h", "m", "s", "x", "W"}

DigitVal(char) == (CHOOSE i \in 1..10 : AsciiDigits[i] = char) - 1

RECURSIVE DecStrip(_)
DecStrip(d) == IF d # <<>> /\ d[Len(d)] = 0 THEN DecStrip(SubSeq(d, 1, Len(d) - 1)) ELSE d

RECURSIVE DecAddC(_, _, _)
DecAddC(a, b, carry) ==
    IF a = <<>> /\ b = <<>> THEN (IF carry = 0 THEN <<>> ELSE <<carry>>)
    ELSE LET x == (IF a = <<>> THEN 0 ELSE Head(a)) + (IF b = <<>> THEN 0 ELSE Head(b))
                      + carry
         IN  <<x % 10>> \o DecAddC(IF a = <<>> THEN <<>> ELSE Tail(a),
                                   IF b = <<>> THEN <<>> ELSE Tail(b), x \div 10)

\* a + b
DecAdd(a, b) == DecAddC(a, b, 0)

RECURSIVE DecMulC(_, _, _)
DecMulC(a, k, carry) ==
    IF a = <<>>
    THEN (IF carry = 0 THEN <<>> ELSE <<carry % 10>> \o DecMulC(<<>>, k, carry \div 10))
    ELSE LET x == Head(a) * k + carry
         IN  <<x % 10>> \o DecMulC(Tail(a), k, x \div 10)

\* a * k for a small k
DecMul(a, k) == DecMulC(a, k, 0)

\* a > b
DecGt(a, b) ==
    \/ Len(a) > Len(b)
    \/ /\ Len(a) = Len(b)
       /\ \E i \in 1..Len(a) : a[i] > b[i] /\ \A j \in (i + 1)..Len(a) : a[j] = b[j]

\* int(value) for a text of characters that passed isdigit: the integer, or
\* ValueError when a character is not a decimal digit
IntOf(value) ==
    IF \E i \in 1..Len(value) : ~InSeq(value[i], AsciiDigits)
    THEN [kind |-> "raise", value |-> "ValueError"]
    ELSE [kind |-> "int",
          digits |-> DecStrip([i \in 1..Len(value) |->
                                  DigitVal(value[Len(value) + 1 - i])])]

\* MAX_TTL = 2 ** 32 - 1 = 4294967295
MAX_TTL == <<5, 9, 2, 7, 6, 9, 4, 9, 2, 4>>

\* the digits as they are written, most significant first (zero is 0)
DecText(d) == IF d = <<>> THEN <<0>> ELSE [i \in 1..Len(d) |-> d[Len(d) + 1 - i]]

\* a faulty unit table whose week has six days
TTLUnit6(seconds, char) ==
    IF char = "w" THEN DecMul(DecMul(DecMul(seconds, 6), 24), 3600)
    ELSE IF char = "d" THEN DecMul(DecMul(seconds, 24), 3600)
    ELSE IF char = "h" THEN DecMul(seconds, 3600)
    ELSE IF char = "m" THEN DecMul(seconds, 60)
    ELSE seconds

\* the seconds a group of the unit char adds (char is one of w, d, h, m, s)
TTLUnit(seconds, char) ==
    IF char = "w" THEN DecMul(DecMul(DecMul(seconds, 7), 24), 3600)
    ELSE IF char = "d" THEN DecMul(DecMul(seconds, 24), 3600)
    ELSE IF char = "h" THEN DecMul(seconds, 3600)
    ELSE IF char = "m" THEN DecMul(seconds, 60)
    ELSE seconds

\* the loop of from_text from character i on, and what follows it
RECURSIVE TTLLoop(_, _, _, _)
TTLLoop(text, i, total_seconds, value) ==
    IF i > Len(text)
    THEN LET last == IF value # <<>> THEN IntOf(value)
                     ELSE [kind |-> "int", digits |-> <<>>]
         IN  IF last.kind = "raise" THEN last
             ELSE IF DecGt(DecAdd(total_seconds, last.digits), MAX_TTL)
             THEN [kind |-> "raise", value |-> "BadTTL"]
             ELSE [kind |-> "return",
                   ttl |-> DecText(DecAdd(total_seconds, last.digits))]
    ELSE IF IsDigit(text[i])
    THEN TTLLoop(text, i + 1, total_seconds, Append(value, text[i]))
    ELSE IF IsAlpha(text[i])
    THEN IF value = <<>> THEN [kind |-> "raise", value |-> "BadTTL"]
         ELSE IF IntOf(value).kind = "raise" THEN IntOf(value)
         ELSE IF text[i] \notin {"w", "d", "h", "m", "s"}
         THEN [kind |-> "raise", value |-> "BadTTL"]
         ELSE TTLLoop(text, i + 1,
                      DecAdd(total_seconds, TTLUnit(IntOf(value).digits, text[i])),
                      <<>>)
    ELSE [kind |-> "raise", value |-> "BadTTL"]

\* dns.ttl.from_text
TTL_from_text(text) ==
    IF text = <<>> THEN [kind |-> "raise", value |-> "BadTTL"]
    ELSE TTLLoop(text, 1, <<>>, <<>>)

(***************************************************************************)
(* dns.update.  A section is the sequence of its RRsets; an rdata is a     *)
(* record of its class, type, covered type and text.                       *)
(***************************************************************************)
RdataClass(c) == [kind |-> "rdclass", value |-> c]

\* dns.rrset.RRset(name, rdclass, rdtype, covers, deleting), empty
RRset(name, rdclass, rdtype, covers, deleting) ==
    [name |-> name, rdclass |-> rdclass, rdtype |-> rdtype, covers |-> covers,
     deleting |-> deleting, ttl |-> 0, rdatas |-> <<>>]

\* rrset.add(rd, ttl)
RRset_add(rrset, rd, ttl) ==
    [rrset EXCEPT !.rdatas = IF InSeq(rd, @) THEN @ ELSE Append(@, rd),
                  !.ttl = ttl]

\* Message.find_rrset: the index of the RRset in the section, appending a
\* new one when create says so; unique (force_unique) skips the search
Message_find_rrset(self, section, name, rdclass, rdtype, covers, deleting, create, unique) ==
    LET found == {i \in 1..Len(self[section]) :
                     /\ self[section][i].name = name
                     /\ self[section][i].rdclass = rdclass
                     /\ self[section][i].rdtype = rdtype
                     /\ self[section][i].covers = covers
                     /\ self[section][i].deleting = deleting}
    IN  IF ~unique /\ found # {}
        THEN [kind |-> "ok", self |-> self,
              index |-> CHOOSE i \in found : \A j \in found : i <= j]
        ELSE IF ~create THEN [kind |-> "raise", value |-> "KeyError"]
        ELSE [kind |-> "ok",
              self |-> [self EXCEPT ![section] =
                           Append(@, RRset(name, rdclass, rdtype, covers, deleting))],
              index |-> Len(self[section]) + 1]

\* dns.rdata.from_text(rdclass, rdtype, text)
Rdata_from_text(rdclass, rdtype, text) ==
    [rdclass |-> rdclass, rdtype |-> rdtype, covers |-> "NONE", text |-> text]

\* UpdateMessage.__init__(zone, rdclass)
UpdateMessage_init(zone, rdclass) ==
    [kind |-> "UpdateMessage", origin |-> zone, zone_rdclass |-> rdclass,
     zone |-> <<RRset(zone, rdclass, "SOA", "NONE", None)>>,
     prerequisite |-> <<>>, update |-> <<>>, additional |-> <<>>]

\* UpdateMessage._add_rr
UpdateMessage_add_rr(self, name, ttl, rd, deleting, section) ==
    LET f == Message_find_rrset(self, section, name, rd.rdclass, rd.rdtype,
                                rd.covers, deleting, TRUE, TRUE)
    IN  [f.self EXCEPT ![section][f.index] = RRset_add(@, rd, ttl)]

\* for rdata in rdataset: self._add_rr(name, rdataset.ttl, rdata, None, section)
RECURSIVE AddEach(_, _, _, _, _)
AddEach(self, name, ttl, rdatas, section) ==
    IF rdatas = <<>> THEN self
    ELSE AddEach(UpdateMessage_add_rr(self, name, ttl, Head(rdatas), None, section),
                 name, ttl, Tail(rdatas), section)

\* UpdateMessage._add; a is the arguments after the name: an rdataset, a ttl
\* and an rdata, or a ttl, an rdtype and a string.  With replace set the
\* last statement reads rd, which the rdataset form never assigned, asks
\* find_rrset for an RRset without create, and reads rdata, which the other
\* two forms never assigned.
UpdateMessage_add(self, replace, section, name, a) ==
    LET added ==
            IF a.form = "rdataset"
            THEN AddEach(self, name, a.rdataset.ttl, a.rdataset.rdatas, section)
            ELSE IF a.form = "rdata"
            THEN UpdateMessage_add_rr(self, name, a.ttl, a.rdata, None, section)
            ELSE UpdateMessage_add_rr(self, name, a.ttl,
                     Rdata_from_text(self.zone_rdclass, a.rdtype, a.string),
                     None, section)
        rd == IF a.form = "rdata" THEN a.rdata
              ELSE Rdata_from_text(self.zone_rdclass, a.rdtype, a.string)
    IN  IF ~replace THEN [self |-> added, outcome |-> [kind |-> "return"]]
        ELSE IF a.form = "rdataset"
        THEN [self |-> added,
              outcome |-> [kind |-> "raise", value |-> "UnboundLocalError"]]
        ELSE LET f == Message_find_rrset(added, section, name, rd.rdclass, rd.rdtype,
                                         rd.covers, None, FALSE, TRUE)
             IN  IF f.kind = "raise"
                 THEN [self |-> added, outcome |-> [kind |-> "raise", value |-> f.value]]
                 ELSE [self |-> f.self,
                       outcome |-> [kind |-> "raise", value |-> "UnboundLocalError"]]

\* UpdateMessage.add
UpdateMessage_add_records(self, name, a) ==
    UpdateMessage_add(self, FALSE, "update", name, a)

\* UpdateMessage.replace
UpdateMessage_replace(self, name, a) ==
    UpdateMessage_add(self, TRUE, "update", name, a)

(***************************************************************************)
(* The Name construction scenario: Name(labels) for labels of 0, 1, 62, 63 *)
(* and 64 octets.                                                          *)
(***************************************************************************)
LabelOf(n) == [i \in 1..n |-> 97]

NameLabels == {LabelOf(0), LabelOf(1), LabelOf(62), LabelOf(63), LabelOf(64)}

InitNameInit ==
    /\ resolver = None
    /\ ResolveIdle
    /\ NXIdle
    /\ CacheIdle
    /\ XfrIdle
    /\ RenderIdle
    /\ UpdateIdle
    /\ CanonIdle
    /\ DefaultIdle
    /\ RotateIdle
    /\ LockIdle
    /\ fn_args \in {[fn |-> "Name", labels |-> l] : l \in SeqsUpTo(NameLabels, MaxLabels)}
    /\ fn_ret = None

\* Name(labels)
NameConstruct ==
    /\ fn_ret = None
    /\ fn_args.fn = "Name"
    /\ fn_ret' = Name_init(fn_args.labels)
    /\ UNCHANGED <<fn_args, resolveVars, nxVars, cacheVars, xfrVars, renderVars, updateVars,
                   canonVars, defaultVars, rotateVars, lockVars>>

NextNameInit == NameConstruct

SpecNameInit == InitNameInit /\ [][NextNameInit]_vars

(***************************************************************************)
(* The wire round trip scenario: an absolute name is put on the wire       *)
(* uncompressed and the octets, between other octets of a message, are     *)
(* decoded again.                                                          *)
(***************************************************************************)
WireLabels == {<<97>>, <<65, 0>>, <<192, 12>>, LabelOf(63)}

WireNames ==
    {[kind |-> "Name", labels |-> Append(l, <<>>)] :
        l \in SeqsUpTo(WireLabels, MaxWireLabels)}

InitNameWire ==
    /\ resolver = None
    /\ ResolveIdle
    /\ NXIdle
    /\ CacheIdle
    /\ XfrIdle
    /\ RenderIdle
    /\ UpdateIdle
    /\ CanonIdle
    /\ DefaultIdle
    /\ RotateIdle
    /\ LockIdle
    /\ fn_args \in {[fn |-> "to_wire", name |-> n, prefix |-> p, suffix |-> q] :
                        n \in WireNames,
                        p \in {<<>>, <<1, 97, 0>>},
                        q \in {<<>>, <<7>>}}
    /\ fn_ret = None

\* n.to_wire()
NameToWire ==
    /\ fn_ret = None
    /\ fn_args.fn = "to_wire"
    /\ fn_ret' = Name_to_wire(fn_args.name)
    /\ UNCHANGED <<fn_args, resolveVars, nxVars, cacheVars, xfrVars, renderVars, updateVars,
                   canonVars, defaultVars, rotateVars, lockVars>>

\* dns.name.from_wire(prefix + wire + suffix, len(prefix))
NameFromWire ==
    /\ fn_ret # None
    /\ fn_args.fn = "to_wire"
    /\ fn_ret.kind = "bytes"
    /\ fn_ret' = [kind |-> "decoded", wire |-> fn_ret.value,
                  ret |-> from_wire(fn_args.prefix \o fn_ret.value \o fn_args.suffix,
                                    Len(fn_args.prefix))]
    /\ UNCHANGED <<fn_args, resolveVars, nxVars, cacheVars, xfrVars, renderVars, updateVars,
                   canonVars, defaultVars, rotateVars, lockVars>>

NextNameWire == NameToWire \/ NameFromWire

SpecNameWire == InitNameWire /\ [][NextNameWire]_vars

(***************************************************************************)
(* The Name ordering scenario: three names are compared with each other    *)
(* and hashed.                                                             *)
(***************************************************************************)
OrderLabels == {<<97>>, <<65>>, <<66>>}

OrderNames ==
    {[kind |-> "Name", labels |-> l] : l \in SeqsUpTo(OrderLabels, MaxOrderLabels)}
    \cup {[kind |-> "Name", labels |-> Append(l, <<>>)] :
              l \in SeqsUpTo(OrderLabels, MaxOrderLabels)}

InitNameOrder ==
    /\ resolver = None
    /\ ResolveIdle
    /\ NXIdle
    /\ CacheIdle
    /\ XfrIdle
    /\ RenderIdle
    /\ UpdateIdle
    /\ CanonIdle
    /\ DefaultIdle
    /\ RotateIdle
    /\ LockIdle
    /\ fn_args \in {[fn |-> "fullcompare", names |-> <<a, b, c>>] :
                        a \in OrderNames, b \in OrderNames, c \in OrderNames}
    /\ fn_ret = None

\* x.fullcompare(y), x == y, x < y, x > y, x.is_subdomain(y) and hash(x) for
\* the three names
NameCompare ==
    /\ fn_ret = None
    /\ fn_args.fn = "fullcompare"
    /\ fn_ret' = [kind |-> "compared",
                  full |-> [i \in 1..3 |-> [j \in 1..3 |->
                              fullcompare(fn_args.names[i], fn_args.names[j])]],
                  eq |-> [i \in 1..3 |-> [j \in 1..3 |->
                              Name_eq(fn_args.names[i], fn_args.names[j])]],
                  lt |-> [i \in 1..3 |-> [j \in 1..3 |->
                              Name_lt(fn_args.names[i], fn_args.names[j])]],
                  gt |-> [i \in 1..3 |-> [j \in 1..3 |->
                              Name_gt(fn_args.names[i], fn_args.names[j])]],
                  sub |-> [i \in 1..3 |-> [j \in 1..3 |->
                              is_subdomain(fn_args.names[i], fn_args.names[j])]],
                  hash |-> [i \in 1..3 |-> Name_hash(fn_args.names[i])]]
    /\ UNCHANGED <<fn_args, resolveVars, nxVars, cacheVars, xfrVars, renderVars, updateVars,
                   canonVars, defaultVars, rotateVars, lockVars>>

NextNameOrder == NameCompare

SpecNameOrder == InitNameOrder /\ [][NextNameOrder]_vars

(***************************************************************************)
(* The rendering scenario: one Renderer is built with a small or the       *)
(* default max_size and is given questions, RRsets, rdatasets, an OPT, a   *)
(* TSIG and reservations in any order.                                     *)
(***************************************************************************)
NameA == [kind |-> "Name", labels |-> <<<<97>>, <<>>>>]

NameBA == [kind |-> "Name", labels |-> <<<<98>>, <<97>>, <<>>>>]

NameRelative == [kind |-> "Name", labels |-> <<<<97>>>>]

RenderRdataset == [rdtype |-> 1, rdclass |-> 1, ttl |-> 300, wire |-> <<10, 0, 0, 1>>]

RenderRRset ==
    [name |-> NameBA, rdtype |-> 1, rdclass |-> 1, ttl |-> 300, wire |-> <<10, 0, 0, 1>>]

RenderOpts ==
    {[rdtype |-> 41, rdclass |-> 1232, ttl |-> 0, wire |-> w] :
        w \in {<<>>, <<0, 10, 0, 0>>}}

\* the octets add_tsig appends for the key a. with three octets of rdata:
\* the name, the ten octets of fixed fields, the rdata
TsigSize == Len(<<1, 97, 0>>) + 10 + Len(<<1, 2, 3>>)

\* the offsets a rollback goes back to: the start of the buffer, the end of
\* the header, the second label of a first question b.a., the end of a
\* first question a.
RollbackOffsets == {0, 12, 14, 19}

InitRender ==
    /\ resolver = None
    /\ ResolveIdle
    /\ NXIdle
    /\ CacheIdle
    /\ XfrIdle
    /\ PureIdle
    /\ UpdateIdle
    /\ CanonIdle
    /\ DefaultIdle
    /\ RotateIdle
    /\ LockIdle
    /\ rdr = None
    /\ rdr_last = None
    /\ rdr_steps = 0

\* Renderer(id, flags, max_size)
RenderCreate(max_size) ==
    /\ rdr = None
    /\ rdr' = Renderer_init(1, 0, max_size)
    /\ UNCHANGED <<rdr_last, rdr_steps, resolveVars, nxVars, cacheVars, xfrVars,
                   pureVars, updateVars,
                   canonVars, defaultVars, rotateVars, lockVars>>

\* one call on the Renderer: r is what the call makes of it
RenderCall(call, r) ==
    /\ rdr # None
    /\ rdr_steps < MaxRenderCalls
    /\ rdr' = r.self
    /\ rdr_last' = [call |-> call, outcome |-> r.outcome, before |-> rdr,
                    history |-> (IF rdr_last = None THEN <<>> ELSE rdr_last.history)
                                    \o <<[call |-> call, outcome |-> r.outcome]>>]
    /\ rdr_steps' = rdr_steps + 1
    /\ UNCHANGED <<resolveVars, nxVars, cacheVars, xfrVars, pureVars, updateVars,
                   canonVars, defaultVars, rotateVars, lockVars>>

RenderAddQuestion(qname) ==
    /\ rdr # None
    /\ RenderCall([op |-> "add", fn |-> "add_question", section |-> QUESTION],
                  Renderer_add_question(rdr, qname, 1, 1))

RenderAddRRset(section) ==
    /\ rdr # None
    /\ RenderCall([op |-> "add", fn |-> "add_rrset", section |-> section],
                  Renderer_add_rrset(rdr, section, RenderRRset))

RenderAddRdataset(section, name) ==
    /\ rdr # None
    /\ RenderCall([op |-> "add", fn |-> "add_rdataset", section |-> section],
                  Renderer_add_rdataset(rdr, section, name, RenderRdataset))

RenderAddOpt(opt, pad, opt_size, tsig_size) ==
    /\ rdr # None
    /\ RenderCall([op |-> "add", fn |-> "add_opt", section |-> ADDITIONAL,
                   opt |-> opt, pad |-> pad, opt_size |-> opt_size,
                   tsig_size |-> tsig_size],
                  Renderer_add_opt(rdr, opt, pad, opt_size, tsig_size))

RenderAddTsig ==
    /\ rdr # None
    /\ RenderCall([op |-> "add", fn |-> "add_tsig", section |-> ADDITIONAL],
                  Renderer_add_tsig(rdr, NameA, <<1, 2, 3>>, <<9>>))

RenderWriteHeader ==
    /\ rdr # None
    /\ RenderCall([op |-> "header", fn |-> "write_header", section |-> rdr.section],
                  Renderer_write_header(rdr))

\* _rollback(where) for an offset of the buffer, its end included
RenderRollback(where) ==
    /\ rdr # None
    /\ where <= Len(rdr.output.buf)
    /\ RenderCall([op |-> "rollback", fn |-> "_rollback", section |-> rdr.section,
                   where |-> where],
                  Renderer_rollback(rdr, where))

RenderReserve(size) ==
    /\ rdr # None
    /\ RenderCall([op |-> "reserve", fn |-> "reserve", section |-> rdr.section],
                  Renderer_reserve(rdr, size))

RenderReleaseReserved ==
    /\ rdr # None
    /\ RenderCall([op |-> "release", fn |-> "release_reserved",
                   section |-> rdr.section],
                  Renderer_release_reserved(rdr))

NextRender ==
    \/ \E max_size \in {16, 65535} : RenderCreate(max_size)
    \/ \E qname \in {NameA, NameBA, NameRelative} : RenderAddQuestion(qname)
    \/ \E section \in QUESTION..ADDITIONAL : RenderAddRRset(section)
    \/ \E section \in QUESTION..ADDITIONAL, name \in {NameA} :
          RenderAddRdataset(section, name)
    \/ \E opt \in RenderOpts : RenderAddOpt(opt, 0, 0, 0)
    \/ \E opt \in RenderOpts, tsig_size \in {0, TsigSize} :
          RenderAddOpt(opt, 8, 11 + Len(opt.wire), tsig_size)
    \/ RenderAddTsig
    \/ RenderWriteHeader
    \/ \E where \in RollbackOffsets : RenderRollback(where)
    \/ \E size \in {8} : RenderReserve(size)
    \/ RenderReleaseReserved

SpecRender == InitRender /\ [][NextRender]_vars

(***************************************************************************)
(* The rcode scenario: to_flags(r) for an integer r, then from_flags of    *)
(* what it returned.                                                       *)
(***************************************************************************)
InitRcode ==
    /\ resolver = None
    /\ ResolveIdle
    /\ NXIdle
    /\ CacheIdle
    /\ XfrIdle
    /\ RenderIdle
    /\ UpdateIdle
    /\ CanonIdle
    /\ DefaultIdle
    /\ RotateIdle
    /\ LockIdle
    /\ fn_args \in {[fn |-> "to_flags", r |-> r] : r \in 0..MaxRcode}
    /\ fn_ret = None

\* to_flags(r)
RcodeToFlags ==
    /\ fn_ret = None
    /\ fn_args.fn = "to_flags"
    /\ fn_ret' = Rcode_to_flags(fn_args.r)
    /\ UNCHANGED <<fn_args, resolveVars, nxVars, cacheVars, xfrVars, renderVars, updateVars,
                   canonVars, defaultVars, rotateVars, lockVars>>

\* from_flags(*to_flags(r))
RcodeFromFlags ==
    /\ fn_ret # None
    /\ fn_args.fn = "to_flags"
    /\ fn_ret.kind = "flags"
    /\ fn_ret' = Rcode_from_flags(fn_ret.flags, fn_ret.ednsflags)
    /\ UNCHANGED <<fn_args, resolveVars, nxVars, cacheVars, xfrVars, renderVars, updateVars,
                   canonVars, defaultVars, rotateVars, lockVars>>

NextRcode == RcodeToFlags \/ RcodeFromFlags

SpecRcode == InitRcode /\ [][NextRcode]_vars

(***************************************************************************)
(* The TTL scenario: from_text of every short text over a few characters   *)
(* and of some longer texts.                                               *)
(***************************************************************************)
TTLChars == {"1", "9", "w", "d", "h", "m", "s", "x", "W", " ", "-", SuperscriptTwo}

TTLLongTexts ==
    {<<"1", "w", "2", "d", "3", "h">>,
     <<"1", "w", "2", "d">>,
     <<"8", "6", "4", "0", "0">>,
     <<"5", "m">>,
     <<"1", "x">>,
     <<"1", "h", "3", "0">>,
     <<"0", "0", "7", "s">>,
     <<"4", "2", "9", "4", "9", "6", "7", "2", "9", "5">>,
     <<"4", "2", "9", "4", "9", "6", "7", "2", "9", "6">>,
     <<"7", "1", "0", "1", "w", "5", "d", "6", "h", "2", "8", "m", "1", "5", "s">>,
     <<"7", "1", "0", "1", "w", "5", "d", "6", "h", "2", "8", "m", "1", "6", "s">>,
     <<"9", "9", "9", "9", "9", "9", "9", "9", "9", "9", "w">>}

InitTTL ==
    /\ resolver = None
    /\ ResolveIdle
    /\ NXIdle
    /\ CacheIdle
    /\ XfrIdle
    /\ RenderIdle
    /\ UpdateIdle
    /\ CanonIdle
    /\ DefaultIdle
    /\ RotateIdle
    /\ LockIdle
    /\ fn_args \in {[fn |-> "ttl.from_text", text |-> t] :
                        t \in SeqsUpTo(TTLChars, MaxTTLLen) \cup TTLLongTexts}
    /\ fn_ret = None

\* dns.ttl.from_text(text)
TTLFromText ==
    /\ fn_ret = None
    /\ fn_args.fn = "ttl.from_text"
    /\ fn_ret' = TTL_from_text(fn_args.text)
    /\ UNCHANGED <<fn_args, resolveVars, nxVars, cacheVars, xfrVars, renderVars, updateVars,
                   canonVars, defaultVars, rotateVars, lockVars>>

NextTTL == TTLFromText

SpecTTL == InitTTL /\ [][NextTTL]_vars

(***************************************************************************)
(* The update scenario: an UpdateMessage for a zone is given add and       *)
(* replace calls in each of the three argument forms.                      *)
(***************************************************************************)
UpdateRdatas ==
    {[rdclass |-> "IN", rdtype |-> "A", covers |-> "NONE", text |-> t] :
        t \in {"10.0.0.1", "10.0.0.2"}}

UpdateArgs ==
    {[form |-> "rdataset",
      rdataset |-> [rdclass |-> "IN", rdtype |-> "A", covers |-> "NONE", ttl |-> 300,
                    rdatas |-> r]] :
         r \in {q \in SeqsUpTo(UpdateRdatas, 2) :
                   \A i, j \in 1..Len(q) : i # j => q[i] # q[j]}}
    \cup {[form |-> "rdata", ttl |-> 300, rdata |-> r] : r \in UpdateRdatas}
    \cup {[form |-> "text", ttl |-> 300, rdtype |-> "A", string |-> t] :
              t \in {"10.0.0.1", "10.0.0.2"}}

UpdateNames == {"www", "ftp"}

InitUpdate ==
    /\ resolver = None
    /\ ResolveIdle
    /\ NXIdle
    /\ CacheIdle
    /\ XfrIdle
    /\ PureIdle
    /\ RenderIdle
    /\ UpdateIdle
    /\ CanonIdle
    /\ DefaultIdle
    /\ RotateIdle
    /\ LockIdle

\* UpdateMessage('example.')
UpdateCreate ==
    /\ upd = None
    /\ upd' = UpdateMessage_init("example.", "IN")
    /\ UNCHANGED <<upd_last, upd_steps, resolveVars, nxVars, cacheVars, xfrVars,
                   pureVars, renderVars,
                   canonVars, defaultVars, rotateVars, lockVars>>

\* one call on the UpdateMessage: r is what the call makes of it
UpdateCall(call, r) ==
    /\ upd # None
    /\ upd_steps < MaxUpdateCalls
    /\ upd' = r.self
    /\ upd_last' = [call |-> call, outcome |-> r.outcome, before |-> upd]
    /\ upd_steps' = upd_steps + 1
    /\ UNCHANGED <<resolveVars, nxVars, cacheVars, xfrVars, pureVars, renderVars,
                   canonVars, defaultVars, rotateVars, lockVars>>

UpdateAdd(name, a) ==
    /\ upd # None
    /\ UpdateCall([fn |-> "add", name |-> name, args |-> a],
                  UpdateMessage_add_records(upd, name, a))

UpdateReplace(name, a) ==
    /\ upd # None
    /\ UpdateCall([fn |-> "replace", name |-> name, args |-> a],
                  UpdateMessage_replace(upd, name, a))

NextUpdate ==
    \/ UpdateCreate
    \/ \E name \in UpdateNames, a \in UpdateArgs : UpdateAdd(name, a)
    \/ \E name \in UpdateNames, a \in UpdateArgs : UpdateReplace(name, a)

SpecUpdate == InitUpdate /\ [][NextUpdate]_vars

(***************************************************************************)
(* Resolver.canonical_name: the CNAME chase, each resolve() call of which  *)
(* runs the query loop above.  The CNAME data of the zone is a map from a  *)
(* name to the target of its CNAME record; a name that maps to itself is   *)
(* a fixpoint.                                                             *)
(***************************************************************************)
CanonNames == {concatenate(foo, root), a_test, b_test}
CanonZones == [CanonNames -> CanonNames]

\* the arguments of self.resolve(name, rdtype='CNAME'): the defaults otherwise
CanonArgs(name) ==
    [qname |-> name, rdtype |-> "CNAME", rdclass |-> "IN", tcp |-> FALSE,
     raise_on_no_answer |-> TRUE, lifetime |-> 0]

InitCanon ==
    /\ resolver = NewResolver(<<"ns1", "ns2">>, FALSE, CacheWith({}), <<>>, 1)
    /\ \E zone \in CanonZones :
          cn = [pc |-> "idle", name |-> None, targets |-> zone, hops |-> <<>>,
                outcome |-> None]
    /\ ResolveIdle
    /\ NXIdle
    /\ CacheIdle
    /\ XfrIdle
    /\ PureIdle
    /\ RenderIdle
    /\ UpdateIdle
    /\ DefaultIdle
    /\ RotateIdle
    /\ LockIdle

\* line 867: answer = self.resolve(name, rdtype='CNAME') is entered
CanonResolve(name) ==
    /\ resolveNo < MaxResolves
    /\ args' = CanonArgs(name)
    /\ resolution' = Resolution_init(resolver, CanonArgs(name))
    /\ start' = now
    /\ request' = None
    /\ response' = None
    /\ nameserver' = None
    /\ outcome' = None
    /\ pc' = "next_request"
    /\ resolveNo' = resolveNo + 1
    /\ UNCHANGED <<now, resolver, calls, prev>>

\* lines 862-867: canonical_name(name) is called and makes its first query
CanonCall(name) ==
    /\ cn.pc = "idle"
    /\ pc = "idle"
    /\ cn' = [cn EXCEPT !.pc = "resolving", !.name = name, !.hops = <<name>>]
    /\ CanonResolve(name)
    /\ UNCHANGED <<nxVars, cacheVars, xfrVars, pureVars, renderVars, updateVars,
                   defaultVars, rotateVars, lockVars>>

\* lines 867-874, resolve() having returned or raised: NoAnswer is caught
\* and the name reached so far returned; any other exception leaves
\* canonical_name; an answer without an RRset fails at answer.rrset[0]; the
\* target of the CNAME ends the chase if it is the name just asked for and
\* is asked for next otherwise.
CanonResolved ==
    /\ cn.pc = "resolving"
    /\ pc = "done"
    /\ IF outcome.kind = "NoAnswer"
       THEN /\ cn' = [cn EXCEPT !.pc = "done",
                         !.outcome = [kind |-> "return", name |-> cn.name]]
            /\ UNCHANGED resolveVars
       ELSE IF outcome.kind # "return"
       THEN /\ cn' = [cn EXCEPT !.pc = "done", !.outcome = [kind |-> outcome.kind]]
            /\ UNCHANGED resolveVars
       ELSE IF ~outcome.answer.rrset
       THEN /\ cn' = [cn EXCEPT !.pc = "done", !.outcome = [kind |-> "TypeError"]]
            /\ UNCHANGED resolveVars
       ELSE LET cname == cn.targets[cn.name]
            IN  IF cname = cn.name
                THEN /\ cn' = [cn EXCEPT !.pc = "done",
                                  !.outcome = [kind |-> "return", name |-> cn.name]]
                     /\ UNCHANGED resolveVars
                ELSE /\ cn' = [cn EXCEPT !.name = cname, !.hops = Append(@, cname)]
                     /\ CanonResolve(cname)
    /\ UNCHANGED <<nxVars, cacheVars, xfrVars, pureVars, renderVars, updateVars,
                   defaultVars, rotateVars, lockVars>>

NextCanon ==
    \/ \E name \in CanonNames : CanonCall(name)
    \/ NextRequest
    \/ Query
    \/ TcpRetry
    \/ CanonResolved

SpecCanon == InitCanon /\ [][NextCanon]_vars

(***************************************************************************)
(* The module-level default resolver: get_default_resolver and             *)
(* reset_default_resolver run by several threads.  A thread switch can     *)
(* fall between any two statements, so each statement is a step; a         *)
(* Resolver object is its serial number.                                   *)
(***************************************************************************)
DefaultThreads == 1..MaxThreads

ResolverObject(id) == [kind |-> "Resolver", id |-> id]

Constructed(log) == {i \in 1..Len(log) : log[i].ev = "construct"}

InitDefault ==
    /\ default_resolver = None
    /\ dlog = <<>>
    /\ callers = [t \in DefaultThreads |-> [pc |-> "idle", fn |-> None]]
    /\ resolver = NewResolver(<<"ns1", "ns2">>, FALSE, CacheWith({}), <<>>, 1)
    /\ ResolveIdle
    /\ NXIdle
    /\ CacheIdle
    /\ XfrIdle
    /\ PureIdle
    /\ RenderIdle
    /\ UpdateIdle
    /\ CanonIdle
    /\ RotateIdle
    /\ LockIdle

DefaultStep(t, pc1, event) ==
    /\ callers' = [callers EXCEPT ![t].pc = pc1]
    /\ dlog' = Append(dlog, event)
    /\ UNCHANGED <<resolveVars, nxVars, cacheVars, xfrVars, pureVars, renderVars,
                   updateVars, canonVars, rotateVars, lockVars>>

\* a thread calls get_default_resolver()
DefaultGet(t) ==
    /\ callers[t].pc \in {"idle", "done"}
    /\ Cardinality({i \in 1..Len(dlog) : dlog[i].ev = "call"}) < MaxDefaultCalls
    /\ callers' = [callers EXCEPT ![t] = [pc |-> "test", fn |-> "get"]]
    /\ dlog' = Append(dlog, [ev |-> "call", t |-> t, fn |-> "get"])
    /\ UNCHANGED default_resolver
    /\ UNCHANGED <<resolveVars, nxVars, cacheVars, xfrVars, pureVars, renderVars,
                   updateVars, canonVars, rotateVars, lockVars>>

\* a thread calls reset_default_resolver()
DefaultReset(t) ==
    /\ callers[t].pc \in {"idle", "done"}
    /\ Cardinality({i \in 1..Len(dlog) : dlog[i].ev = "call"}) < MaxDefaultCalls
    /\ callers' = [callers EXCEPT ![t] = [pc |-> "clear", fn |-> "reset"]]
    /\ dlog' = Append(dlog, [ev |-> "call", t |-> t, fn |-> "reset"])
    /\ UNCHANGED default_resolver
    /\ UNCHANGED <<resolveVars, nxVars, cacheVars, xfrVars, pureVars, renderVars,
                   updateVars, canonVars, rotateVars, lockVars>>

\* lines 926-927: default_resolver = None, then get_default_resolver() is
\* entered
DefaultClear(t) ==
    /\ callers[t].pc = "clear"
    /\ default_resolver' = None
    /\ DefaultStep(t, "test", [ev |-> "clear", t |-> t])

\* line 915: if default_resolver is None
DefaultTest(t) ==
    /\ callers[t].pc = "test"
    /\ callers' = [callers EXCEPT ![t].pc =
                       IF default_resolver = None THEN "construct" ELSE "return"]
    /\ UNCHANGED <<default_resolver, dlog>>
    /\ UNCHANGED <<resolveVars, nxVars, cacheVars, xfrVars, pureVars, renderVars,
                   updateVars, canonVars, rotateVars, lockVars>>

\* line 916: default_resolver = Resolver()
DefaultConstruct(t) ==
    /\ callers[t].pc = "construct"
    /\ LET r == ResolverObject(Cardinality(Constructed(dlog)) + 1)
       IN  /\ default_resolver' = r
           /\ DefaultStep(t, "read_resolv_conf", [ev |-> "construct", t |-> t, r |-> r])

\* line 917: default_resolver.read_resolv_conf() is called without the
\* argument f that read_resolv_conf (line 550) requires: TypeError, which
\* also leaves reset_default_resolver when that is the caller
DefaultReadResolvConf(t) ==
    /\ callers[t].pc = "read_resolv_conf"
    /\ UNCHANGED default_resolver
    /\ DefaultStep(t, "done",
                   IF default_resolver = None
                   THEN [ev |-> "raise", t |-> t, fn |-> callers[t].fn,
                         exception |-> "AttributeError"]
                   ELSE [ev |-> "raise", t |-> t, fn |-> callers[t].fn,
                         exception |-> "TypeError"])

\* line 918: return default_resolver; reset_default_resolver drops the value
DefaultReturn(t) ==
    /\ callers[t].pc = "return"
    /\ UNCHANGED default_resolver
    /\ DefaultStep(t, "done",
                   [ev |-> "return", t |-> t, fn |-> callers[t].fn,
                    r |-> IF callers[t].fn = "get" THEN default_resolver ELSE None])

NextDefault ==
    \E t \in DefaultThreads :
        \/ DefaultGet(t)
        \/ DefaultReset(t)
        \/ DefaultClear(t)
        \/ DefaultTest(t)
        \/ DefaultConstruct(t)
        \/ DefaultReadResolvConf(t)
        \/ DefaultReturn(t)

SpecDefault == InitDefault /\ [][NextDefault]_vars

(***************************************************************************)
(* Resolver._get_next_nameserver run by the resolve() calls of several     *)
(* threads on one resolver.  list.pop(0) and list.append are atomic, the   *)
(* two together are not: a thread switch can fall between them.            *)
(***************************************************************************)
RotateThreads == 1..MaxRotateThreads
RotateLists == {<<"ns1">>, <<"ns1", "ns2">>, <<"ns1", "ns2", "ns3">>}

InitRotate ==
    /\ \E nameservers \in RotateLists, rotate \in BOOLEAN :
          /\ resolver = NewResolver(nameservers, rotate, CacheWith({}), <<>>, 1)
          /\ rot = [configured |-> nameservers,
                    thr |-> [t \in RotateThreads |->
                                [pc |-> "ready", nameserver |-> None, chosen |-> <<>>]]]
    /\ ResolveIdle
    /\ NXIdle
    /\ CacheIdle
    /\ XfrIdle
    /\ PureIdle
    /\ RenderIdle
    /\ UpdateIdle
    /\ CanonIdle
    /\ DefaultIdle
    /\ LockIdle

RotateFrame ==
    UNCHANGED <<now, args, resolution, request, response, nameserver, start, pc,
                outcome, calls, resolveNo, prev, nxVars, cacheVars, xfrVars, pureVars,
                renderVars, updateVars, canonVars, defaultVars, lockVars>>

\* line 783: nameserver = self.nameservers.pop(0); IndexError on an empty list
RotatePop(t) ==
    /\ resolver.rotate
    /\ rot.thr[t].pc = "ready"
    /\ Len(rot.thr[t].chosen) < MaxSelections
    /\ IF resolver.nameservers = <<>>
       THEN /\ rot' = [rot EXCEPT !.thr[t].pc = "IndexError"]
            /\ UNCHANGED resolver
       ELSE /\ rot' = [rot EXCEPT !.thr[t].pc = "popped",
                                  !.thr[t].nameserver = Head(resolver.nameservers)]
            /\ resolver' = [resolver EXCEPT !.nameservers = Tail(@)]
    /\ RotateFrame

\* lines 784 and 787: self.nameservers.append(nameserver); return nameserver
RotateAppend(t) ==
    /\ rot.thr[t].pc = "popped"
    /\ resolver' = [resolver EXCEPT !.nameservers = Append(@, rot.thr[t].nameserver)]
    /\ rot' = [rot EXCEPT !.thr[t].pc = "ready",
                          !.thr[t].chosen = Append(@, rot.thr[t].nameserver)]
    /\ RotateFrame

\* lines 786-787: nameserver = self.nameservers[0]; return nameserver
RotateHead(t) ==
    /\ ~resolver.rotate
    /\ rot.thr[t].pc = "ready"
    /\ Len(rot.thr[t].chosen) < MaxSelections
    /\ rot' = [rot EXCEPT !.thr[t].nameserver = resolver.nameservers[1],
                          !.thr[t].chosen = Append(@, resolver.nameservers[1])]
    /\ UNCHANGED resolver
    /\ RotateFrame

NextRotate ==
    \E t \in RotateThreads :
        \/ RotatePop(t)
        \/ RotateAppend(t)
        \/ RotateHead(t)

SpecRotate == InitRotate /\ [][NextRotate]_vars

(***************************************************************************)
(* The cache's lock.  Several threads call the public methods of one       *)
(* Cache or LRUCache.  A method that has a `with self.lock:` block         *)
(* acquires the lock (waiting while another thread holds it), runs its     *)
(* body and releases the lock; a method without one reads the cache        *)
(* whoever holds the lock.                                                 *)
(***************************************************************************)
CacheThreads == 1..MaxCacheThreads

\* the methods whose body is a `with self.lock:` block, and those without
LockedMethods ==
    {"get", "put", "flush", "get_hits_for_key", "reset_statistics",
     "get_statistics_snapshot"}
UnlockedMethods == {"hits", "misses"}

InitLock ==
    /\ resolver = None
    /\ ResolveIdle
    /\ NXIdle
    /\ XfrIdle
    /\ lc \in CachesUnderTest
    /\ lc_op = None
    /\ lc_fresh = EmptyDict
    /\ lc_used = EmptyDict
    /\ lc_steps = 0
    /\ PureIdle
    /\ RenderIdle
    /\ UpdateIdle
    /\ CanonIdle
    /\ DefaultIdle
    /\ RotateIdle
    /\ lck = None
    /\ cthr = [t \in CacheThreads |->
                  [pc |-> "idle", method |-> None, key |-> None, acquired |-> 0,
                   unlocked |-> FALSE, raced |-> FALSE, ret |-> None]]

LockFrame ==
    UNCHANGED <<lc_op, lc_fresh, lc_used, resolveVars, nxVars, xfrVars, pureVars,
                renderVars, updateVars, canonVars, defaultVars, rotateVars>>

\* a thread calls a public method of the cache
LockCall(t, method, key) ==
    /\ cthr[t].pc \in {"idle", "returned"}
    /\ lc_steps < MaxCacheCalls
    /\ method = "get_hits_for_key" => lc.kind = "LRUCache"
    /\ cthr' = [cthr EXCEPT ![t] =
                   [pc |-> IF method \in LockedMethods THEN "with" ELSE "read",
                    method |-> method, key |-> key, acquired |-> 0,
                    unlocked |-> FALSE, raced |-> FALSE, ret |-> None]]
    /\ lc_steps' = lc_steps + 1
    /\ UNCHANGED <<lc, lck>>
    /\ LockFrame

\* with self.lock: the lock is acquired once it is free
LockAcquire(t) ==
    /\ cthr[t].pc = "with"
    /\ lck = None
    /\ lck' = [kind |-> "held", by |-> t]
    /\ cthr' = [cthr EXCEPT ![t].pc = "body", ![t].acquired = @ + 1]
    /\ UNCHANGED <<lc, lc_steps>>
    /\ LockFrame

\* the body of the with block of each locked method
LockedBody(self, method, key, t) ==
    IF method = "get"
    THEN LET r == IF self.kind = "Cache" THEN Cache_get(self, key, t)
                  ELSE LRUCache_get(self, key, t)
         IN  [cache |-> r.cache, ret |-> r.answer]
    ELSE IF method = "put"
    THEN [cache |-> IF self.kind = "Cache"
                    THEN Cache_put(self, key, AnswerFor(key, 3, t), t)
                    ELSE LRUCache_put(self, key, AnswerFor(key, 3, t)),
          ret |-> None]
    ELSE IF method = "flush"
    THEN [cache |-> IF self.kind = "Cache" THEN Cache_flush(self, key, t)
                    ELSE LRUCache_flush(self, key),
          ret |-> None]
    ELSE IF method = "get_hits_for_key"
    THEN [cache |-> self,
          ret |-> [kind |-> "int", value |-> LRUCache_get_hits_for_key(self, key)]]
    ELSE IF method = "reset_statistics"
    THEN [cache |-> CacheBase_reset_statistics(self), ret |-> None]
    ELSE [cache |-> self, ret |-> CacheBase_get_statistics_snapshot(self)]

\* the thread that holds the lock runs the body of its method
LockBody(t) ==
    /\ cthr[t].pc = "body"
    /\ LET r == LockedBody(lc, cthr[t].method, cthr[t].key, now)
       IN  /\ lc' = r.cache
           /\ cthr' = [cthr EXCEPT ![t].pc = "exit", ![t].ret = r.ret,
                          ![t].unlocked = @ \/ lck = None \/ lck.by # t]
    /\ UNCHANGED <<lck, lc_steps>>
    /\ LockFrame

\* the with block is left: the lock is released and the method returns
LockRelease(t) ==
    /\ cthr[t].pc = "exit"
    /\ lck' = None
    /\ cthr' = [cthr EXCEPT ![t].pc = "returned"]
    /\ UNCHANGED <<lc, lc_steps>>
    /\ LockFrame

\* lines 231-237: hits() and misses() return self.statistics.hits and
\* self.statistics.misses at once, whether or not another thread is inside
\* a with block
LockRead(t) ==
    /\ cthr[t].pc = "read"
    /\ cthr' = [cthr EXCEPT
                   ![t].pc = "returned",
                   ![t].ret = [kind |-> "int",
                               value |-> IF cthr[t].method = "hits"
                                         THEN CacheBase_hits(lc)
                                         ELSE CacheBase_misses(lc)],
                   ![t].unlocked = TRUE,
                   ![t].raced = lck # None]
    /\ UNCHANGED <<lc, lck, lc_steps>>
    /\ LockFrame

NextLock ==
    \E t \in CacheThreads :
        \/ \E method \in {"get", "put"} : LockCall(t, method, KeyA)
        \/ \E key \in {None, KeyA} : LockCall(t, "flush", key)
        \/ LockCall(t, "get_hits_for_key", KeyA)
        \/ \E method \in {"reset_statistics", "get_statistics_snapshot"} \cup UnlockedMethods :
              LockCall(t, method, None)
        \/ LockAcquire(t)
        \/ LockBody(t)
        \/ LockRelease(t)
        \/ LockRead(t)

SpecLock == InitLock /\ [][NextLock]_vars

(***************************************************************************)
(* Properties                                                              *)
(***************************************************************************)
SeqSet(s) == {s[i] : i \in 1..Len(s)}

\* the candidates the search-list rule prescribes, position by position
ExpectedCandidates(qname, search, ndots) ==
    IF qname # <<>> /\ Last(qname) = ""
    THEN <<qname>>
    ELSE LET n == Len(search)
             bare == qname \o <<"">>
             dots == IF qname = <<>> THEN 0 ELSE Len(qname) - 1
         IN  [i \in 1..(n + 1) |->
                 IF dots > ndots
                 THEN (IF i = 1 THEN bare ELSE qname \o search[i - 1])
                 ELSE (IF i = n + 1 THEN bare ELSE qname \o search[i])]

C2_AggregateNXDOMAIN ==
    (pc = "done" /\ outcome.kind = "NXDOMAIN" /\ outcome.answer = None) =>
        /\ outcome.qnames = resolution.qnames_to_try
        /\ DOMAIN outcome.responses = SeqSet(resolution.qnames_to_try)
        /\ \A q \in DOMAIN outcome.responses :
              /\ outcome.responses[q].rcode = NXDOMAIN
              /\ outcome.responses[q].q = q

\* C3: the NOERROR answer of a first resolve is cached under the key of the
\* candidate that was queried, and a second resolve of the same question
\* made before that answer expires returns it from the cache, so that the
\* two calls issue at most one network query.
C3_CacheIdempotence ==
    /\ (resolveNo = 1 /\ pc = "done" /\ outcome.kind = "return"
            /\ outcome.from = "network") =>
          DictGet(resolver.cache.data, <<request.qname, args.rdtype, args.rdclass>>)
              = outcome.answer
    /\ (resolveNo = 2 /\ pc = "done" /\ prev.outcome.kind = "return"
            /\ prev.outcome.from = "network" /\ prev.ncalls = 1
            /\ start < prev.outcome.answer.expiration) =>
          /\ Len(calls) <= 1
          /\ outcome = [kind |-> "return", answer |-> prev.outcome.answer,
                        from |-> "cache"]

CurrentCalls == SelectSeq(calls, LAMBDA c : c.resolve = resolveNo)
BlackHoled ==
    /\ CurrentCalls # <<>>
    /\ \A i \in 1..Len(CurrentCalls) : CurrentCalls[i].result.kind = "timeout"

\* C4: a resolve all of whose transport calls time out ends with
\* LifetimeTimeout carrying the error trace: it is not still running once
\* the lifetime and one more transport timeout have gone by.
C4_LifetimeBound ==
    /\ (pc \in {"next_request", "query", "tcp"} /\ BlackHoled) =>
          now - start < EffectiveLifetime(args.lifetime, resolver) + resolver.timeout
    /\ (pc = "done" /\ BlackHoled) =>
          /\ outcome.kind = "LifetimeTimeout"
          /\ outcome.errors = resolution.errors

\* C5: no transport call is initiated when the time elapsed since the start
\* of the resolve is at or past the lifetime.
C5_LifetimeCheckBeforeCall ==
    \A i \in 1..Len(calls) : calls[i].elapsed < calls[i].lifetime

Servers == <<"ns1", "ns2">>
ServerIndex(server) == CHOOSE k \in 1..Len(Servers) : Servers[k] = server
CallFailed(c) ==
    \/ c.result.kind \in {"timeout", "error"}
    \/ c.result.kind = "response" /\ c.result.rcode = SERVFAIL /\ ~resolver.retry_servfail

\* C6: after a call to a nameserver ends in a timeout or a transport error,
\* (server, error) is in the error trace and the next call goes to the next
\* nameserver of the list, not to the same one; the same advance happens
\* after a SERVFAIL when retry_servfail is not set.
C6_AdvanceToNextServer ==
    \A i \in 1..Len(calls) :
        (calls[i].resolve = resolveNo /\ CallFailed(calls[i])) =>
            /\ calls[i].result.kind \in {"timeout", "error"} =>
                  \E j \in 1..Len(resolution.errors) :
                      resolution.errors[j][1] = calls[i].server
            /\ (i < Len(calls) /\ calls[i + 1].resolve = resolveNo
                    /\ calls[i + 1].request = calls[i].request) =>
                  /\ calls[i + 1].server # calls[i].server
                  /\ ServerIndex(calls[i].server) < Len(Servers) =>
                        calls[i + 1].server = Servers[ServerIndex(calls[i].server) + 1]

FailedServers ==
    {CurrentCalls[i].server : i \in {j \in 1..Len(CurrentCalls) :
        CurrentCalls[j].request = request /\ CallFailed(CurrentCalls[j])}}
TerminalSeen ==
    \E i \in 1..Len(CurrentCalls) :
        /\ CurrentCalls[i].request = request
        /\ CurrentCalls[i].result.kind = "response"
        /\ ~CurrentCalls[i].result.tc
        /\ CurrentCalls[i].result.rcode \in {NOERROR, NXDOMAIN}

\* C7: once every configured nameserver has failed for a candidate and no
\* NOERROR or NXDOMAIN response was seen, resolve raises NoNameservers
\* carrying the error trace.
C7_NoNameservers ==
    (/\ pc \in {"query", "tcp", "done"}
     /\ request # None
     /\ FailedServers = SeqSet(resolver.nameservers)
     /\ ~TerminalSeen
     /\ now - start < EffectiveLifetime(args.lifetime, resolver)) =>
        /\ pc = "done"
        /\ outcome.kind = "NoNameservers"
        /\ outcome.errors = resolution.errors

TruncatedCall(c) == c.via = "udp" /\ c.result.kind = "response" /\ c.result.tc

\* C8: the first transport call for a query is UDP unless tcp is set; a UDP
\* response with TC is followed at once by a TCP call with the same request
\* to the same nameserver, whose response replaces the truncated one.
C8_TransportSelection ==
    /\ \A i \in 1..Len(calls) :
          IF i > 1 /\ TruncatedCall(calls[i - 1])
          THEN /\ calls[i].via = "tcp"
               /\ calls[i].resolve = calls[i - 1].resolve
               /\ calls[i].request = calls[i - 1].request
               /\ calls[i].server = calls[i - 1].server
          ELSE calls[i].via = (IF args.tcp THEN "tcp" ELSE "udp")
    /\ (calls # <<>> /\ TruncatedCall(Last(calls))) =>
          (pc = "tcp" /\ nameserver = Last(calls).server)
    /\ (Len(calls) > 1 /\ TruncatedCall(calls[Len(calls) - 1])
            /\ Last(calls).resolve = resolveNo
            /\ Last(calls).result.kind = "response") =>
          response = Last(calls).result

\* a truncated UDP response was retried over TCP and the TCP response kept
C8_Witness ==
    /\ Len(calls) > 1
    /\ TruncatedCall(calls[Len(calls) - 1])
    /\ Last(calls).via = "tcp"
    /\ Last(calls).server = calls[Len(calls) - 1].server
    /\ Last(calls).result.kind = "response"
    /\ response = Last(calls).result
    /\ calls[1].via = "udp"

\* C9: for a NOERROR response with no RRset of the requested type, resolve
\* raises NoAnswer when raise_on_no_answer is true and returns an Answer
\* whose rrset is absent when it is false.
C9_NoAnswer ==
    (/\ pc = "done"
     /\ response # None
     /\ response.rcode = NOERROR /\ ~response.rrset /\ ~response.tc
     /\ now - start <= EffectiveLifetime(args.lifetime, resolver)) =>
        IF args.raise_on_no_answer
        THEN outcome.kind = "NoAnswer"
        ELSE outcome.kind = "return" /\ ~outcome.answer.rrset

\* the qnames of e2 that are not in e1, each at its first occurrence
RECURSIVE NewQnames(_, _)
NewQnames(seen, qnames) ==
    IF qnames = <<>> THEN <<>>
    ELSE IF Head(qnames) \in seen THEN NewQnames(seen, Tail(qnames))
    ELSE <<Head(qnames)>> \o NewQnames(seen \cup {Head(qnames)}, Tail(qnames))

\* d1 and d2 merged, d2's entry used where both have one
Merge(d1, d2) ==
    [k \in (DOMAIN d1) \cup (DOMAIN d2) |-> IF k \in DOMAIN d2 THEN d2[k] ELSE d1[k]]

NXAdded == nx_pc = "ready" /\ nx_pc' = "added"

\* C10 as stated: E1 + E2 has E1's qnames followed by the new qnames of E2,
\* and responses equal to the merge of both response maps; neither operand
\* is modified.
C10_AddMergesAllResponses ==
    [][NXAdded =>
        /\ nx_sum'.qnames = nx_e1.qnames \o NewQnames(SeqSet(nx_e1.qnames), nx_e2.qnames)
        /\ nx_sum'.responses = Merge(nx_e1.responses, nx_e2.responses)
        /\ nx_e1' = nx_e1
        /\ nx_e2' = nx_e2]_vars

\* C10: E1 + E2 has E1's qnames followed by the qnames of E2 not already
\* present, in order and without new duplicates; its responses are E1's
\* responses updated with E2's entries for the names listed in E2's qnames
\* (E2's entry used when both have one); neither operand is modified.
C10_AddMergesListedResponses ==
    [][NXAdded =>
        /\ nx_sum'.qnames = nx_e1.qnames \o NewQnames(SeqSet(nx_e1.qnames), nx_e2.qnames)
        /\ nx_sum'.responses =
               Merge(nx_e1.responses,
                     DictRestrict(nx_e2.responses, SeqSet(nx_e2.qnames)))
        /\ nx_e1' = nx_e1
        /\ nx_e2' = nx_e2]_vars

\* a sum that took a new qname and an overriding response from E2 and left a
\* response of E2 for an unlisted name behind
C10_Witness ==
    /\ nx_pc = "added"
    /\ Len(nx_sum.qnames) > Len(nx_e1.qnames)
    /\ \E n \in DOMAIN nx_e1.responses \cap DOMAIN nx_e2.responses :
          nx_e1.responses[n] # nx_e2.responses[n] /\ nx_sum.responses[n] = nx_e2.responses[n]
    /\ \E n \in DOMAIN nx_e2.responses : n \notin DOMAIN nx_sum.responses

\* C11: a get of a key whose latest put is still held (not flushed since)
\* returns that answer and counts one hit while the time is before the
\* answer's expiration, and returns None and counts one miss at or after
\* it, for a Cache and an LRUCache alike, cleaned in between or not.
C11_CacheTTL ==
    (lc_op # None /\ lc_op.op = "get" /\ lc_op.key \in DOMAIN lc_op.fresh) =>
        LET a == lc_op.fresh[lc_op.key]
        IN  IF lc_op.t < a.expiration
            THEN /\ lc_op.answer = a
                 /\ lc.hits = lc_op.before.hits + 1
                 /\ lc.misses = lc_op.before.misses
            ELSE /\ lc_op.answer = None
                 /\ lc.misses = lc_op.before.misses + 1
                 /\ lc.hits = lc_op.before.hits

\* a Cache serves an answer in the very get that ran its cleaning sweep,
\* and the same answer is refused at its expiration time
C11_Witness ==
    /\ lc_op # None /\ lc_op.op = "get" /\ lc_op.key \in DOMAIN lc_op.fresh
    /\ lc.kind = "Cache"
    /\ lc_op.before.next_cleaning <= lc_op.t
    /\ lc_op.t < lc_op.fresh[lc_op.key].expiration
    /\ lc_op.answer = lc_op.fresh[lc_op.key]

\* C12: however get, put and flush are called on an LRUCache built with
\* max_size M, it never holds more than M entries, in its dict or its list.
C12_LRUBounded ==
    (lc # None /\ lc.kind = "LRUCache") =>
        /\ lc.max_size >= 1
        /\ Cardinality(DOMAIN lc.data) <= lc.max_size
        /\ Len(lc.order) <= lc.max_size

\* a put of a new key into a full LRUCache leaves it full
C12_Witness ==
    /\ lc_op # None /\ lc_op.op = "put" /\ lc.kind = "LRUCache"
    /\ lc_op.key \notin DOMAIN lc_op.before.data
    /\ Cardinality(DOMAIN lc_op.before.data) = lc.max_size
    /\ Cardinality(DOMAIN lc.data) = lc.max_size

C14_EvictTail ==
    (lc_op # None /\ lc_op.op = "put" /\ lc.kind = "LRUCache") =>
        LET b == lc_op.before
            n == Len(b.order)
            need == IF n >= b.max_size THEN n - b.max_size + 1 ELSE 0
            kept == {b.order[i] : i \in 1..(n - need)}
        IN  IF lc_op.key \in DOMAIN b.data
            THEN /\ DOMAIN lc.data = DOMAIN b.data
                 /\ \A k \in (DOMAIN b.data) \ {lc_op.key} : lc.data[k] = b.data[k]
            ELSE /\ DOMAIN lc.data = kept \cup {lc_op.key}
                 /\ \A k \in kept : lc.data[k] = b.data[k]

\* max_size 2: put A, put B, get A, put C leaves exactly A and C
C14_Witness ==
    /\ lc_op # None /\ lc_op.op = "put" /\ lc.kind = "LRUCache"
    /\ lc.max_size = 2
    /\ lc_op.key = KeyC
    /\ lc_op.before.order = <<KeyA, KeyB>>
    /\ lc_used = DictSet(DictSet(DictSet(EmptyDict, KeyA, 3), KeyB, 2), KeyC, 4)
    /\ lc.hits = 1
    /\ DOMAIN lc.data = {KeyA, KeyC}
    /\ lc.order = <<KeyC, KeyA>>

\* the last call on the Inbound was a process_message that returned
XfrProcessed(rdtype) ==
    /\ inb # None /\ inb.rdtype = rdtype
    /\ xfr_last # None /\ xfr_last.message # <<>>
    /\ xfr_ret.kind = "return"

XMsg == xfr_last.message
XBefore == xfr_last.before
XOpsBefore == IF XBefore.txn = None THEN <<>> ELSE XBefore.txn.ops
Min(S) == CHOOSE x \in S : \A y \in S : x <= y
SOAAt == {i \in 1..Len(XMsg) : XMsg[i].rdtype = "SOA"}

\* where the last message holds the opening SOA, 0 when it does not
OpenIdx ==
    IF XBefore.soa_rdataset = None /\ SOAAt # {} THEN Min(SOAAt) ELSE 0

OpeningSOA ==
    IF XBefore.soa_rdataset # None THEN XBefore.soa_rdataset
    ELSE IF OpenIdx # 0 THEN XMsg[OpenIdx] ELSE None

\* where the last message holds the first SOA after the opening one
AxfrCloseIdx ==
    LET later == {i \in SOAAt : i # OpenIdx}
    IN  IF later = {} THEN 0 ELSE Min(later)

\* C15: an AXFR message is processed RR by RR in order.  The first SOA the
\* Inbound sees becomes soa_rdataset and is added; the next SOA commits,
\* sets done and makes process_message return True with the RRs after it
\* left alone; every other RR before it is added; without such an SOA the
\* call returns False with the transaction still open.
C15_AXFRProcessing ==
    XfrProcessed("AXFR") =>
        LET n == IF AxfrCloseIdx = 0 THEN Len(XMsg) ELSE AxfrCloseIdx - 1
        IN  /\ inb.txn.ops =
                  XOpsBefore \o [i \in 1..n |-> [op |-> "add", rrset |-> XMsg[i]]]
            /\ inb.soa_rdataset = OpeningSOA
            /\ xfr_ret.value = (AxfrCloseIdx # 0)
            /\ inb.done = (AxfrCloseIdx # 0)
            /\ inb.txn.state = IF AxfrCloseIdx # 0 THEN "committed" ELSE "open"

\* one message SOA 1, A, SOA 1, A: the first two are added, the second SOA
\* commits and the last RR is never looked at
C15_Witness ==
    /\ XfrProcessed("AXFR")
    /\ XMsg = <<SOA(1), OtherRR, SOA(1), OtherRR>>
    /\ inb.txn.ops = <<[op |-> "add", rrset |-> SOA(1)],
                       [op |-> "add", rrset |-> OtherRR]>>
    /\ inb.txn.state = "committed"
    /\ xfr_ret.value

\* C16: in an AXFR the Inbound adds no RR of another type before it has
\* added the opening SOA, and it commits only on an SOA equal to the
\* opening SOA.
C16_AXFRStreamInvariant ==
    (inb # None /\ inb.rdtype = "AXFR" /\ inb.txn # None) =>
        /\ inb.txn.ops # <<>> => inb.txn.ops[1].rrset.rdtype = "SOA"
        /\ (XfrProcessed("AXFR") /\ xfr_ret.value) =>
              XMsg[AxfrCloseIdx] = inb.soa_rdataset

\* the first message of an IXFR opens with an SOA whose serial is not ahead
\* of the base serial
IxfrNoChange ==
    /\ XBefore.txn = None
    /\ XMsg[1].rdtype = "SOA"
    /\ XMsg[1].serial <= inb.serial.value

\* C17: when the opening SOA of the first message of an IXFR has a serial
\* less than or equal to the base serial, that first process_message
\* returns True with done set, and the transaction is not committed and has
\* been given no add and no delete.
C17_IXFRNoChange ==
    (XfrProcessed("IXFR") /\ IxfrNoChange) =>
        /\ xfr_ret.value
        /\ inb.done
        /\ inb.txn.state = "open"
        /\ inb.txn.ends = 0
        /\ inb.txn.ops = <<>>

\* the opening SOA carries the base serial itself and more RRs follow it
C17_Witness ==
    /\ XfrProcessed("IXFR") /\ IxfrNoChange
    /\ XMsg[1].serial = inb.serial.value
    /\ Len(XMsg) > 1
    /\ inb.done

\* where the last message holds the terminating SOA of an IXFR: the first
\* SOA after the opening one that equals it
IxfrTermIdx ==
    LET t == {i \in SOAAt : i > OpenIdx /\ XMsg[i] = OpeningSOA}
    IN  IF t = {} THEN 0 ELSE Min(t)

\* delete_mode as the RR at position i of the last message meets it: every
\* SOA after the opening one and before i has flipped it
IxfrModeAt(i) ==
    LET flips == Cardinality({j \in SOAAt : OpenIdx < j /\ j < i})
    IN  IF flips % 2 = 0 THEN XBefore.delete_mode ELSE ~XBefore.delete_mode

\* the last message continues, or opens with, the diff part of an IXFR
IxfrDiff ==
    /\ XBefore.soa_rdataset # None \/ XMsg[1].rdtype = "SOA"
    /\ ~(XBefore.soa_rdataset = None /\ XMsg[1].serial <= inb.serial.value)

C19_RollbackOnExit ==
    (inb # None /\ xfr_ret.kind = "exit" /\ XBefore.txn # None
        /\ XBefore.txn.state = "open") =>
        /\ inb.txn.state = "rolledback"
        /\ inb.txn.ends = 1
        /\ Transaction_applied(inb.txn) = <<>>

\* an Inbound left in the middle of a transfer, operations pending
C19_Witness ==
    /\ inb # None /\ xfr_ret.kind = "exit" /\ XBefore.txn # None
    /\ XBefore.txn.state = "open"
    /\ ~inb.done
    /\ Len(inb.txn.ops) >= 2
    /\ inb.txn.state = "rolledback"

\* C20: when the one datagram of an IXFR over UDP does not complete the
\* transfer, process_message raises UseTCP.
C20_UseTCP ==
    (inb # None /\ inb.rdtype = "IXFR" /\ inb.is_udp
        /\ xfr_last # None /\ xfr_last.message # <<>>
        /\ XBefore.txn = None /\ ~inb.done) =>
        xfr_ret = [kind |-> "raise", value |-> "UseTCP"]

\* C21: process_message on a message whose rcode is not NOERROR raises
\* TransferError carrying that rcode and gives the transaction no add, no
\* delete and no commit for that message.
C21_TransferError ==
    (inb # None /\ xfr_last # None /\ xfr_last.message # <<>>
        /\ xfr_last.rcode # NOERROR) =>
        /\ xfr_ret.kind = "raise"
        /\ xfr_ret.value = "TransferError"
        /\ inb.txn.ops = XOpsBefore
        /\ inb.txn.state = "open"

\* C24: Name(labels) returns a Name exactly when every label has at most 63
\* octets, the labels' lengths plus one each sum to at most 255 and no
\* label but the last is empty; otherwise it raises and returns no Name.
C24_NameInvariants ==
    (fn_ret # None /\ fn_args.fn = "Name") =>
        LET labels == fn_args.labels
            n == Len(labels)
            valid == /\ \A i \in 1..n : Len(labels[i]) <= 63
                     /\ SumLengths(labels) <= 255
                     /\ \A i \in 1..n : labels[i] = <<>> => i = n
        IN  IF valid THEN fn_ret = [kind |-> "Name", labels |-> labels]
            ELSE fn_ret.kind = "raise"

\* a name of 255 octets in all is accepted: labels of 63, 63, 63 and 62
C24_Witness ==
    /\ fn_ret # None /\ fn_args.fn = "Name"
    /\ fn_ret.kind = "Name"
    /\ SumLengths(fn_ret.labels) = 255

\* C25: for an absolute name n, decoding the octets n.to_wire() produced
\* without compression, wherever they stand in a message, yields a name
\* equal to n and consumes exactly the octets emitted.
C25_WireRoundTrip ==
    (fn_ret # None /\ fn_args.fn = "to_wire" /\ fn_ret.kind = "decoded") =>
        /\ fn_ret.ret.kind = "ok"
        /\ Name_eq(fn_ret.ret.name, fn_args.name)
        /\ fn_ret.ret.cused = Len(fn_ret.wire)

\* a name of two labels, one holding octets that look like a pointer, has
\* been decoded from the middle of a message
C25_Witness ==
    /\ fn_ret # None /\ fn_args.fn = "to_wire" /\ fn_ret.kind = "decoded"
    /\ fn_args.name.labels = <<<<192, 12>>, <<97>>, <<>>>>
    /\ fn_args.prefix # <<>> /\ fn_args.suffix # <<>>
    /\ fn_ret.ret.kind = "ok"
    /\ fn_ret.ret.cused = 6

LowerEqual(x, y) == LowerLabels(x.labels) = LowerLabels(y.labels)

C22_SectionOrder ==
    (rdr_last # None) =>
        /\ rdr.section >= rdr_last.before.section
        /\ (rdr_last.call.op = "add"
                /\ rdr_last.call.section < rdr_last.before.section) =>
               /\ rdr_last.outcome.kind = "raise"
               /\ rdr_last.outcome.value = "FormError"
               /\ rdr = rdr_last.before
        /\ (rdr_last.call.op = "add"
                /\ rdr_last.call.section >= rdr_last.before.section) =>
               /\ rdr.section = rdr_last.call.section
               /\ rdr_last.outcome.kind = "raise" =>
                      rdr_last.outcome.value # "FormError"

\* after an rdataset went straight into ADDITIONAL, a question was refused
C22_Witness ==
    /\ rdr_last # None
    /\ rdr_last.call.fn = "add_question"
    /\ rdr_last.before.section = ADDITIONAL
    /\ rdr_last.before.counts = <<0, 0, 0, 1>>
    /\ rdr_last.outcome.kind = "raise"
    /\ rdr = rdr_last.before

\* C23: a message that was no longer than max_size less the reserved octets
\* is no longer than that after any add_* call either, whether the call
\* returned or failed: an add that would make it longer leaves none of its
\* octets behind.
C23_SizeBound ==
    (rdr_last # None /\ rdr_last.call.op = "add"
        /\ Len(Renderer_get_wire(rdr_last.before))
               <= rdr_last.before.max_size - rdr_last.before.reserved) =>
        Len(Renderer_get_wire(rdr)) <= rdr.max_size - rdr.reserved

\* C27: for every r in 0..4095, from_flags(*to_flags(r)) returns r and
\* neither call raises, whether or not r is a named member of Rcode.
C27_RcodeRoundTrip ==
    (fn_ret # None /\ fn_args.fn = "to_flags") =>
        /\ fn_ret.kind # "raise"
        /\ fn_ret.kind = "rcode" => fn_ret.rcode = fn_args.r

TTLCalled == fn_ret # None /\ fn_args.fn = "ttl.from_text"

TTLUnits == {"w", "d", "h", "m", "s"}

UnitSeconds(char) ==
    IF char = "w" THEN 604800
    ELSE IF char = "d" THEN 86400
    ELSE IF char = "h" THEN 3600
    ELSE IF char = "m" THEN 60
    ELSE 1

\* the number written by the digits that end just before position i
NumberBefore(text, i) ==
    LET j == Min({k \in 1..i : \A m \in k..(i - 1) : InSeq(text[m], AsciiDigits)})
    IN  IntOf(SubSeq(text, j, i - 1)).digits

\* the seconds of the groups that end at position i or later, and of a
\* bare integer at the end of the text
RECURSIVE GroupSeconds(_, _)
GroupSeconds(text, i) ==
    IF i > Len(text)
    THEN NumberBefore(text, Len(text) + 1)
    ELSE IF text[i] \in TTLUnits
    THEN DecAdd(DecMul(NumberBefore(text, i), UnitSeconds(text[i])),
                GroupSeconds(text, i + 1))
    ELSE GroupSeconds(text, i + 1)

\* what the text stands for: BadTTL, or the sum of its groups
TTLMeant(text) ==
    IF \/ text = <<>>
       \/ \E i \in 1..Len(text) :
              ~InSeq(text[i], AsciiDigits) /\ text[i] \notin TTLUnits
       \/ \E i \in 1..Len(text) :
              text[i] \in TTLUnits /\ (i = 1 \/ ~InSeq(text[i - 1], AsciiDigits))
       \/ DecGt(GroupSeconds(text, 1), MAX_TTL)
    THEN [kind |-> "raise", value |-> "BadTTL"]
    ELSE [kind |-> "return", ttl |-> DecText(GroupSeconds(text, 1))]

\* C28: from_text returns the sum of N times the unit (w 604800, d 86400,
\* h 3600, m 60, s 1) over the groups of the text plus a bare integer at its
\* end, a value of 0..2^32-1, and raises BadTTL for an empty text, a unit
\* letter with no digits before it, a letter outside wdhms, any other
\* character, and a total above 2^32-1.
C28_FromText == TTLCalled => fn_ret = TTLMeant(fn_args.text)

\* the same for the texts written in ASCII
C28_FromTextAscii ==
    (TTLCalled /\ \A i \in 1..Len(fn_args.text) : fn_args.text[i] # SuperscriptTwo) =>
        fn_ret = TTLMeant(fn_args.text)

\* C29 as stated: 1w2d3h gives 777600, 5m gives 300, 86400 gives 86400 and
\* 1x is rejected.
C29_ScenarioAsStated ==
    TTLCalled =>
        /\ fn_args.text = <<"1", "w", "2", "d", "3", "h">> =>
               fn_ret = [kind |-> "return", ttl |-> <<7, 7, 7, 6, 0, 0>>]
        /\ fn_args.text = <<"5", "m">> =>
               fn_ret = [kind |-> "return", ttl |-> <<3, 0, 0>>]
        /\ fn_args.text = <<"8", "6", "4", "0", "0">> =>
               fn_ret = [kind |-> "return", ttl |-> <<8, 6, 4, 0, 0>>]
        /\ fn_args.text = <<"1", "x">> =>
               fn_ret = [kind |-> "raise", value |-> "BadTTL"]

\* C29: 1w2d3h gives 788400 (604800 + 2 * 86400 + 3 * 3600), 5m gives 300,
\* 86400 gives 86400 and 1x is rejected with BadTTL.
C29_Scenario ==
    TTLCalled =>
        /\ fn_args.text = <<"1", "w", "2", "d", "3", "h">> =>
               fn_ret = [kind |-> "return", ttl |-> <<7, 8, 8, 4, 0, 0>>]
        /\ fn_args.text = <<"5", "m">> =>
               fn_ret = [kind |-> "return", ttl |-> <<3, 0, 0>>]
        /\ fn_args.text = <<"8", "6", "4", "0", "0">> =>
               fn_ret = [kind |-> "return", ttl |-> <<8, 6, 4, 0, 0>>]
        /\ fn_args.text = <<"1", "x">> =>
               fn_ret = [kind |-> "raise", value |-> "BadTTL"]

\* from_text('1w2d3h') has returned
C29_Witness ==
    /\ TTLCalled
    /\ fn_args.text = <<"1", "w", "2", "d", "3", "h">>
    /\ fn_ret.kind = "return"

\* the rdatas passed in a call
RdatasOf(a) ==
    IF a.form = "rdataset" THEN SeqSet(a.rdataset.rdatas)
    ELSE IF a.form = "rdata" THEN {a.rdata}
    ELSE {[rdclass |-> "IN", rdtype |-> a.rdtype, covers |-> "NONE",
           text |-> a.string]}

RdtypeOf(a) ==
    IF a.form = "rdataset" THEN a.rdataset.rdtype
    ELSE IF a.form = "rdata" THEN a.rdata.rdtype
    ELSE a.rdtype

\* C30: replace(name, ...) returns, and the UPDATE section then holds, past
\* what it held before, an entry that deletes the RRset of the name and the
\* rdtype (class ANY, no rdata) and, after it, every rdata passed in the
\* call under that name; in each of the three argument forms.
C30_Replace ==
    (upd_last # None /\ upd_last.call.fn = "replace") =>
        LET name == upd_last.call.name
            a == upd_last.call.args
            n == Len(upd_last.before.update)
        IN  /\ upd_last.outcome.kind = "return"
            /\ \E i \in (n + 1)..Len(upd.update) :
                   /\ upd.update[i].name = name
                   /\ upd.update[i].rdtype = RdtypeOf(a)
                   /\ upd.update[i].deleting = RdataClass("ANY")
                   /\ upd.update[i].rdatas = <<>>
                   /\ \A rd \in RdatasOf(a) :
                          \E j \in (i + 1)..Len(upd.update) :
                              /\ upd.update[j].name = name
                              /\ upd.update[j].deleting = None
                              /\ InSeq(rd, upd.update[j].rdatas)

\* C31: a canonical_name call that has ended has returned the last name of
\* its chase, which is a fixpoint of the CNAME data or a name whose query
\* found no answer, or has raised something other than NoAnswer and
\* NXDOMAIN.
C31_CanonicalName ==
    (cn # None /\ cn.pc = "done") =>
        /\ cn.outcome.kind \notin {"NoAnswer", "NXDOMAIN"}
        /\ cn.outcome.kind = "return" => cn.outcome.name = Last(cn.hops)

Max(S) == CHOOSE x \in S : \A y \in S : x >= y

\* the last default_resolver = None of a reset, 0 if there was none
LastClear == Max({0} \cup {i \in 1..Len(dlog) : dlog[i].ev = "clear"})

\* the call that the event at position i belongs to
CallOf(i) == Max({j \in 1..i : dlog[j].ev = "call" /\ dlog[j].t = dlog[i].t})

\* C32: among the calls made since the last reset (or since the start) at
\* most one Resolver is constructed, none of the calls raises, and all
\* get_default_resolver calls that have returned returned the same Resolver.
C32_LazySingleton ==
    LET since == {i \in 1..Len(dlog) :
                     /\ i > LastClear
                     /\ \/ CallOf(i) > LastClear
                        \/ LastClear > 0 /\ CallOf(i) = CallOf(LastClear)}
    IN  /\ Cardinality({i \in since : dlog[i].ev = "construct"}) <= 1
        /\ \A i \in since : dlog[i].ev # "raise"
        /\ \A i, j \in since :
               (dlog[i].ev = "return" /\ dlog[j].ev = "return"
                /\ dlog[i].fn = "get" /\ dlog[j].fn = "get") =>
                   (dlog[i].r = dlog[j].r /\ dlog[i].r # None)

\* the SOAs of a stream strictly between its first and its last RR
InnerSOAs(msg) == {i \in 2..(Len(msg) - 1) : msg[i].rdtype = "SOA"}

\* the serial in force before the delete-SOA at position i: the serial of
\* the add-SOA before it, or the base serial for the first group
SerialBefore(msg, i, base) ==
    LET earlier == {j \in InnerSOAs(msg) : j < i}
    IN  IF earlier = {} THEN base ELSE msg[Max(earlier)].serial

\* a well-formed IXFR diff stream from the serial `base`: the opening SOA
\* with the new serial, groups of delete-SOA (the serial in force),
\* deletions, add-SOA (a later serial), additions, the last add-SOA with
\* the new serial, and a final SOA equal to the opening one
WellFormedIxfr(msg, base) ==
    /\ Len(msg) >= 4
    /\ msg[1].rdtype = "SOA" /\ msg[1].serial > base
    /\ msg[Len(msg)] = msg[1]
    /\ msg[2].rdtype = "SOA"
    /\ Cardinality(InnerSOAs(msg)) % 2 = 0
    /\ \A i \in InnerSOAs(msg) :
          LET k == Cardinality({j \in InnerSOAs(msg) : j < i})
          IN  IF k % 2 = 0
              THEN msg[i].serial = SerialBefore(msg, i, base)
              ELSE msg[i].serial > SerialBefore(msg, i, base)
    /\ msg[Max(InnerSOAs(msg))].serial = msg[1].serial

\* C33: when one message holds a whole well-formed IXFR diff stream, the
\* transaction is given, in stream order, a delete for every RR after a
\* delete-SOA and an add for every RR after an add-SOA, those of the last
\* group included, is then committed, and process_message returns True.
C33_IXFRStream ==
    (XfrProcessed("IXFR") /\ XBefore.txn = None /\ inb.serial # None
        /\ WellFormedIxfr(XMsg, inb.serial.value)) =>
        LET idx == SelectSeq([i \in 1..Len(XMsg) |-> i],
                             LAMBDA i : XMsg[i].rdtype # "SOA")
            deleting(i) == Cardinality({j \in InnerSOAs(XMsg) : j < i}) % 2 = 1
        IN  /\ inb.txn.ops =
                  [k \in 1..Len(idx) |->
                      [op |-> IF deleting(idx[k]) THEN "delete" ELSE "add",
                       rrset |-> XMsg[idx[k]]]]
            /\ inb.txn.state = "committed"
            /\ xfr_ret.value

\* C34: the transaction of an Inbound is obtained by the first
\* process_message and kept by the later ones, which only append to its
\* operations; it is never ended more than once, and when the Inbound is
\* left it has been ended exactly once, so a transaction that
\* process_message committed is not rolled back by __exit__.
C34_EndedOnce ==
    (inb # None /\ inb.txn # None) =>
        /\ inb.txn.ends <= 1
        /\ xfr_ret.kind = "exit" => inb.txn.ends = 1
        /\ (xfr_last # None /\ XBefore.txn # None) =>
              /\ Len(inb.txn.ops) >= Len(XBefore.txn.ops)
              /\ SubSeq(inb.txn.ops, 1, Len(XBefore.txn.ops)) = XBefore.txn.ops

\* list l is list c started at another place
IsRotation(l, c) ==
    /\ Len(l) = Len(c)
    /\ \E k \in 0..Len(c) :
          \A i \in 1..Len(c) : l[i] = c[((i + k - 1) % Len(c)) + 1]

\* C35: no nameserver selection fails because of another thread's, and
\* whenever no thread is between its pop and its append the nameserver list
\* is a rotation of the configured list.
C35_RotateSafe ==
    (rot # EmptyDict) =>
        /\ \A t \in RotateThreads : rot.thr[t].pc # "IndexError"
        /\ (\A t \in RotateThreads : rot.thr[t].pc # "popped") =>
              IsRotation(resolver.nameservers, rot.configured)

\* C36: a public cache method that has returned acquired the lock exactly
\* once, and no thread has read or written the cache without holding the
\* lock, in particular not while another thread held it.
C36_LockOnce ==
    \A t \in DOMAIN cthr :
        /\ cthr[t].pc = "returned" => cthr[t].acquired = 1
        /\ ~cthr[t].unlocked
        /\ ~cthr[t].raced

\* C37: in an LRUCache a get that returns an answer raises the hit count of
\* its key by one and no other call raises the hit count of any key; in
\* particular a put on a key that is present does not.
C37_HitsOnlyByGet ==
    (lc # None /\ lc.kind = "LRUCache" /\ lc_op # None) =>
        \A k \in {KeyA, KeyB, KeyC} :
            LET hits0 == LRUCache_get_hits_for_key(lc_op.before, k)
                hits1 == LRUCache_get_hits_for_key(lc, k)
            IN  IF lc_op.op = "get" /\ lc_op.key = k /\ lc_op.answer # None
                THEN hits1 = hits0 + 1
                ELSE hits1 <= hits0

\* the calls made on the Renderer so far, each with its outcome
RenderHistory == IF rdr_last = None THEN <<>> ELSE rdr_last.history

\* the 16-bit field of the wire message at that offset
WireU16(wire, offset) == wire[offset + 1] * 256 + wire[offset + 2]

\* the documented call sequence has been carried out: questions and RRsets,
\* then possibly the OPT record, then write_header, then possibly add_tsig,
\* every call having returned
DocumentedSequence(h) ==
    /\ \A i \in 1..Len(h) : h[i].outcome.kind \in {"return", "None"}
    /\ \E k \in 1..Len(h) :
          /\ h[k].call.fn = "write_header"
          /\ \A i \in 1..(k - 1) : h[i].call.fn \in {"add_question", "add_rrset", "add_opt"}
          /\ \A i \in 1..(k - 2) : h[i].call.fn # "add_opt"
          /\ Len(h) <= k + 1
          /\ Len(h) = k + 1 => h[k + 1].call.fn = "add_tsig"

\* the records the calls of a history have rendered in a section; each call
\* of the sample inputs renders one record
RenderedIn(h, section) ==
    Cardinality({i \in 1..Len(h) : h[i].call.op = "add" /\ h[i].call.section = section})

\* C38: after the documented call sequence, the four counts in the header
\* of the wire message are the numbers of records rendered in the four
\* sections, a TSIG added after write_header counted in the last.
C38_HeaderCounts ==
    (rdr # None /\ rdr.kind = "Renderer" /\ DocumentedSequence(RenderHistory)) =>
        \A section \in QUESTION..ADDITIONAL :
            WireU16(Renderer_get_wire(rdr), 4 + 2 * section)
                = RenderedIn(RenderHistory, section)

\* C39: add_opt with pad > 0, opt_size the size of the unpadded OPT record
\* and tsig_size the size of the TSIG to come returns with the length of
\* the message plus tsig_size a multiple of pad, fewer than pad octets of
\* padding appended, and the rdlength field of the OPT record equal to the
\* number of RDATA octets, padding included.
C39_OptPadding ==
    (rdr_last # None /\ rdr_last.call.fn = "add_opt" /\ rdr_last.call.pad > 0
        /\ rdr_last.outcome.kind = "return"
        /\ rdr_last.before.output.pos = Len(rdr_last.before.output.buf)) =>
        LET c == rdr_last.call
            before == rdr_last.outcome.span[1]
            wire == Renderer_get_wire(rdr)
            padding == Len(wire) - before - c.opt_size
        IN  /\ (Len(wire) + c.tsig_size) % c.pad = 0
            /\ padding >= 0 /\ padding < c.pad
            /\ WireU16(wire, before + 9) = Len(wire) - (before + 11)

\* C40: after _rollback(where) the buffer is `where` octets long, the
\* compression table holds exactly the entries it held with an offset below
\* `where`, each with its offset, and nothing else of the Renderer has
\* changed.
C40_Rollback ==
    (rdr_last # None /\ rdr_last.call.fn = "_rollback") =>
        LET where == rdr_last.call.where
            old == rdr_last.before
        IN  /\ Len(Renderer_get_wire(rdr)) = where
            /\ Renderer_get_wire(rdr) = SubSeq(Renderer_get_wire(old), 1, where)
            /\ DOMAIN rdr.compress = {k \in DOMAIN old.compress : old.compress[k] < where}
            /\ \A k \in DOMAIN rdr.compress : rdr.compress[k] = old.compress[k]
            /\ rdr.section = old.section
            /\ rdr.counts = old.counts
            /\ [rdr EXCEPT !.output = old.output, !.compress = old.compress] = old

\* the question b.a. was rolled back to its second label: the entry for
\* a. at offset 14 is gone, the one for b.a. at offset 12 stays
C40_Witness ==
    /\ rdr_last # None /\ rdr_last.call.fn = "_rollback"
    /\ rdr_last.call.where = 14
    /\ rdr_last.before.counts = <<1, 0, 0, 0>>
    /\ Len(Renderer_get_wire(rdr_last.before)) = 19
    /\ DOMAIN rdr_last.before.compress = {<<<<>>>>, <<<<97>>, <<>>>>, <<<<98>>, <<97>>, <<>>>>}
    /\ DOMAIN rdr.compress = {<<<<>>>>, <<<<98>>, <<97>>, <<>>>>}
    /\ Len(Renderer_get_wire(rdr)) = 14

====
